---- MODULE Spec2Model ----
(***************************************************************************)
(* Reconciliation and delivery core of the exam-update scraper:            *)
(*   - NotificationManager  (src/data/notification_manager.py)             *)
(*   - NotificationQueueManager  (src/data/notification_queue.py)          *)
(* Text values are TLA+ strings; scraped_at timestamps are naturals whose  *)
(* order is the lexicographic order of the ISO-8601 strings (0 is '').     *)
(***************************************************************************)
EXTENDS Integers, Sequences, FiniteSets, TLC

(***************************************************************************)
(* Bounds of the model.                                                    *)
(***************************************************************************)
MaxBatch == 2
MaxItems == 2
MaxDoc == 2

(***************************************************************************)
(* Text helpers: str.lower() and the `in` operator on str.                 *)
(***************************************************************************)
LowerChar(c) ==
  CASE c = "A" -> "a" [] c = "B" -> "b" [] c = "C" -> "c" [] c = "D" -> "d"
    [] c = "E" -> "e" [] c = "F" -> "f" [] c = "G" -> "g" [] c = "H" -> "h"
    [] c = "I" -> "i" [] c = "J" -> "j" [] c = "K" -> "k" [] c = "L" -> "l"
    [] c = "M" -> "m" [] c = "N" -> "n" [] c = "O" -> "o" [] c = "P" -> "p"
    [] c = "Q" -> "q" [] c = "R" -> "r" [] c = "S" -> "s" [] c = "T" -> "t"
    [] c = "U" -> "u" [] c = "V" -> "v" [] c = "W" -> "w" [] c = "X" -> "x"
    [] c = "Y" -> "y" [] c = "Z" -> "z" [] OTHER -> c

RECURSIVE Lower(_)
Lower(s) ==
  IF Len(s) = 0 THEN ""
  ELSE LowerChar(SubSeq(s, 1, 1)) \o Lower(SubSeq(s, 2, Len(s)))

\* k in s  (substring containment)
Contains(s, k) ==
  \E i \in 1..(Len(s) - Len(k) + 1) : SubSeq(s, i, i + Len(k) - 1) = k

(***************************************************************************)
(* Category Classifier: NotificationManager.determine_category             *)
(***************************************************************************)
CategoryList == <<"jee", "gate", "jee_adv", "upsc">>
Categories == {CategoryList[i] : i \in 1..Len(CategoryList)}

\* the same chain with the JEE test moved in front of the JEE Advanced test
determine_category_jee_first(update) ==
  LET exam_type == Lower(update.exam_type)
      source    == Lower(update.source)
  IN  IF \/ exam_type = "jee" \/ Contains(source, "jee main")
         \/ Contains(exam_type, "jee") \/ Contains(source, "jee")
      THEN "jee"
      ELSE IF \/ Contains(source, "jee advanced") \/ Contains(source, "jeeadv")
              \/ Contains(exam_type, "jee advanced") \/ Contains(exam_type, "jeeadv")
      THEN "jee_adv"
      ELSE IF \/ exam_type = "gate" \/ Contains(source, "gate")
              \/ Contains(exam_type, "gate")
      THEN "gate"
      ELSE IF \/ exam_type = "upsc" \/ Contains(source, "upsc")
              \/ Contains(exam_type, "upsc")
      THEN "upsc"
      ELSE "jee"

determine_category(update) ==
  LET exam_type == Lower(update.exam_type)
      source    == Lower(update.source)
  IN  IF \/ Contains(source, "jee advanced") \/ Contains(source, "jeeadv")
         \/ Contains(exam_type, "jee advanced") \/ Contains(exam_type, "jeeadv")
      THEN "jee_adv"
      ELSE IF \/ exam_type = "gate" \/ Contains(source, "gate")
              \/ Contains(exam_type, "gate")
      THEN "gate"
      ELSE IF \/ exam_type = "upsc" \/ Contains(source, "upsc")
              \/ Contains(exam_type, "upsc")
      THEN "upsc"
      ELSE IF \/ exam_type = "jee" \/ Contains(source, "jee main")
              \/ Contains(exam_type, "jee") \/ Contains(source, "jee")
      THEN "jee"
      ELSE "jee"

(***************************************************************************)
(* Raw records of a scrape batch.  A record missing the content_hash key   *)
(* reads as '' through update.get('content_hash', '').                     *)
(***************************************************************************)
ContentHashes == {"", "h1", "h2"}
Origins == { [source |-> "JEE Advanced Board", exam_type |-> ""],
             [source |-> "Portal",             exam_type |-> "GATE"],
             [source |-> "Portal",             exam_type |-> ""] }

\* what a scraper reports besides the hash: the origin and scraped_at
Sightings ==
  { [source |-> "JEE Advanced Board", exam_type |-> "",     scraped_at |-> 1],
    [source |-> "JEE Advanced Board", exam_type |-> "",     scraped_at |-> 2],
    [source |-> "Portal",             exam_type |-> "GATE", scraped_at |-> 1] }

RawRecords ==
  { [content_hash |-> h, title |-> "Notice", source |-> s.source,
     exam_type |-> s.exam_type, scraped_at |-> s.scraped_at] :
       h \in ContentHashes, s \in Sightings }

\* determine_category over the origins of the model's records
CategoryOf == [o \in Origins |-> determine_category(o)]
category_of(update) ==
  CategoryOf[[source |-> update.source, exam_type |-> update.exam_type]]

RECURSIVE SeqsUpTo(_, _)
SeqsUpTo(S, n) ==
  IF n = 0 THEN {<<>>}
  ELSE LET shorter == SeqsUpTo(S, n - 1)
       IN  shorter \cup {Append(b, x) : b \in {c \in shorter : Len(c) = n - 1}, x \in S}

Batches == SeqsUpTo(RawRecords, MaxBatch)

(***************************************************************************)
(* Snapshot documents                                                      *)
(***************************************************************************)
EmptyMainData ==
  [jee |-> <<>>, gate |-> <<>>, jee_adv |-> <<>>, upsc |-> <<>>,
   total_notification |-> 0]

EmptyNotificationData ==
  [jee |-> <<>>, gate |-> <<>>, jee_adv |-> <<>>, upsc |-> <<>>,
   total_new_notifications |-> 0]

VARIABLES
  main_data_file,      \* data/exam_data.json: [exists, data]
  notification_file,   \* data/updated_notifications.json: [exists, data]
  last_stats,          \* result['stats'] of the most recent cycle (zeros
                       \* when the cycle did not reach the Reconciler)
  reingest             \* bookkeeping of a batch that is fed twice in a row

get_existing_data ==
  IF ~main_data_file.exists THEN EmptyMainData ELSE main_data_file.data

get_notification_data ==
  IF ~notification_file.exists THEN EmptyNotificationData
  ELSE notification_file.data

\* clear_notifications() that leaves the file in place
clear_notifications_keeps_file == notification_file

\* clear_notifications(): the delta file after os.remove
clear_notifications == [exists |-> FALSE, data |-> EmptyNotificationData]

\* get_existing_hashes that scans the jee list only
get_existing_hashes_jee_only(data) ==
  {data["jee"][i].content_hash : i \in 1..Len(data["jee"])}

get_existing_hashes(data) ==
  UNION { {data[c][i].content_hash : i \in 1..Len(data[c])} : c \in Categories }

format_update(update) ==
  [title |-> update.title, source |-> update.source,
   scraped_at |-> update.scraped_at, content_hash |-> update.content_hash]

\* list.sort(key=scraped_at, reverse=True): stable, newest first
InsertDesc(sorted, x) ==
  LET p == Cardinality({i \in 1..Len(sorted) : sorted[i].scraped_at >= x.scraped_at})
  IN  SubSeq(sorted, 1, p) \o <<x>> \o SubSeq(sorted, p + 1, Len(sorted))

RECURSIVE SortDesc(_)
SortDesc(s) ==
  IF s = <<>> THEN <<>>
  ELSE InsertDesc(SortDesc(SubSeq(s, 1, Len(s) - 1)), s[Len(s)])

\* the sum over three of the four categories
SumLens_without_jee_adv(d) == Len(d.jee) + Len(d.gate) + Len(d.upsc)

SumLens(d) == Len(d.jee) + Len(d.gate) + Len(d.jee_adv) + Len(d.upsc)

\* index of the first item of list with the given hash, 0 when there is none
FirstIndex(list, h) ==
  LET hits == {i \in 1..Len(list) : list[i].content_hash = h}
  IN  IF hits = {} THEN 0 ELSE CHOOSE i \in hits : \A j \in hits : i <= j

\* the loop body without existing_hashes.add(content_hash)
process_update_no_add(st, update) ==
  LET content_hash == update.content_hash
      category == category_of(update)
      formatted_update == format_update(update)
  IN  IF content_hash = "" THEN st
      ELSE IF content_hash \notin st.hashes
      THEN [st EXCEPT !.data[category] = Append(@, formatted_update),
                      !.notif[category] = Append(@, formatted_update),
                      !.new_items = @ + 1]
      ELSE LET i == FirstIndex(st.data[category], content_hash)
           IN  IF i = 0 THEN st
               ELSE [st EXCEPT !.data[category][i] = formatted_update,
                               !.updated_items = @ + 1]

\* one iteration of the loop over new_updates
process_update(st, update) ==
  LET content_hash == update.content_hash
      category == category_of(update)
      formatted_update == format_update(update)
  IN  IF content_hash = "" THEN st
      ELSE IF content_hash \notin st.hashes
      THEN [st EXCEPT !.data[category] = Append(@, formatted_update),
                      !.notif[category] = Append(@, formatted_update),
                      !.hashes = @ \cup {content_hash},
                      !.new_items = @ + 1]
      ELSE LET i == FirstIndex(st.data[category], content_hash)
           IN  IF i = 0 THEN st
               ELSE [st EXCEPT !.data[category][i] = formatted_update,
                               !.updated_items = @ + 1]

\* the loop with break in place of continue at a record without hash
RECURSIVE process_loop_stop_at_empty(_, _)
process_loop_stop_at_empty(st, new_updates) ==
  IF new_updates = <<>> \/ Head(new_updates).content_hash = "" THEN st
  ELSE process_loop_stop_at_empty(process_update(st, Head(new_updates)),
                                  Tail(new_updates))

RECURSIVE process_loop(_, _)
process_loop(st, new_updates) ==
  IF new_updates = <<>> THEN st
  ELSE process_loop(process_update(st, Head(new_updates)), Tail(new_updates))

process_new_scraped_data(new_updates) ==
  LET existing_data == get_existing_data
      st0 == [data |-> existing_data, notif |-> EmptyNotificationData,
              hashes |-> get_existing_hashes(existing_data),
              new_items |-> 0, updated_items |-> 0]
      st == process_loop(st0, new_updates)
      sorted_data == [c \in Categories |-> SortDesc(st.data[c])]
      sorted_notif == [c \in Categories |-> SortDesc(st.notif[c])]
      main == [jee |-> sorted_data["jee"], gate |-> sorted_data["gate"],
               jee_adv |-> sorted_data["jee_adv"], upsc |-> sorted_data["upsc"],
               total_notification |-> SumLens(sorted_data)]
      notif == [jee |-> sorted_notif["jee"], gate |-> sorted_notif["gate"],
                jee_adv |-> sorted_notif["jee_adv"], upsc |-> sorted_notif["upsc"],
                total_new_notifications |-> SumLens(sorted_notif)]
  IN  [main_data |-> main, notification_data |-> notif,
       stats |-> [new_items |-> st.new_items,
                  updated_items |-> st.updated_items,
                  new_notifications |-> notif.total_new_notifications]]

(***************************************************************************)
(* Delivery Queue: NotificationQueueManager                                *)
(*                                                                         *)
(* mem is the heap of QueuedNotification objects, queue is the live Queue   *)
(* of object references, queue_file is data/notification_queue.json.  uid  *)
(* is the identity of the logical item: it names the object in the heap    *)
(* and, across a restart, the object from_dict builds for the same record. *)
(***************************************************************************)
DefaultMaxAttempts == 3

NotificationStatus == {"PENDING", "SENDING", "SENT", "FAILED", "RETRY"}
StatusValue(status) ==                                    \* status.value
  CASE status = "PENDING" -> "pending"
    [] status = "SENDING" -> "sending"
    [] status = "SENT"    -> "sent"
    [] status = "FAILED"  -> "failed"
    [] status = "RETRY"   -> "retry"
StatusOf(value) == CHOOSE st \in NotificationStatus : StatusValue(st) = value
StatusValues == {StatusValue(st) : st \in NotificationStatus}

Payloads == { [source |-> "Portal", scraped_at |-> 1, content_hash |-> "h1"] }

VARIABLES
  mem,           \* heap: uid -> QueuedNotification object
  queue,         \* self.queue: references (uids), head first
  queue_file,    \* [exists, queue]: the persisted document
  processing,    \* self.processing
  boot,          \* "loading" while __init__ runs _load_queue, then "up"
  load_idx,      \* position of _load_queue in the document
  w_pc,          \* worker thread: "get", "send", "save"
  w_cur,         \* the object the worker holds (0: none)
  c_pc,          \* calling thread of add_notification: "idle", "save"
  c_cur,         \* the object add_notification has just put (0: none)
  sv,            \* per thread, the locals of a running _save_queue
  hist,          \* per uid: webhook invocations and retry transitions
  enqueued,      \* uids whose add_notification has returned
  reached,       \* uids that have been SENT or FAILED in memory
  cls_update,    \* the record handed to determine_category
  cls_result,    \* its category ("none" before the call)
  ids,           \* per uid: the id add_notification gave the item
  clock,         \* the system clock, in ticks
  disk,          \* the snapshot files as stored: name -> [exists, text, mtime]
  io,            \* the thread inside save_main_data / save_notifications
  rd,            \* what the latest reader of a snapshot file saw
  backups,       \* files of the backup directory: [name, mtime]
  clr,           \* the thread inside clear_queue, and what it left behind
  cyc,           \* the thread inside process_next_scrape_cycle
  db,            \* the rows of the updates table, by content_hash, oldest first
  scraping_log,  \* rows of the scraping_log table
  last_cycle,    \* what the latest scrape_all_websites was given and did
  sch,           \* the Scheduler object, its threads and the process
  su,            \* the latest call of save_updates: arguments and return
  fp,            \* the thread inside fetch_page
  rc,            \* the latest reconciliation: what it was given
  pl             \* per thread, the scrape cycle it is running

recon_vars == <<main_data_file, notification_file, last_stats, reingest>>
cls_vars == <<cls_update, cls_result>>
queue_vars == <<mem, queue, queue_file, processing, boot, load_idx,
                w_pc, w_cur, c_pc, c_cur, sv, hist, enqueued, reached, ids>>
snap_vars == <<disk, io, rd, backups>>
scrape_vars == <<db, scraping_log, last_cycle>>
aux_vars == <<su, fp, rc, pl>>
ext_vars == <<clock, snap_vars, clr, cyc, scrape_vars, sch, aux_vars>>
vars == <<recon_vars, queue_vars, cls_vars, ext_vars>>

Threads == {"worker", "caller"}
NoSave == [pc |-> "idle", temp |-> <<>>, queue_items |-> <<>>]
ZeroHist == [sends |-> 0, retries |-> 0]

\* the exam_type _send_webhook_for_new_notifications passes on every call
AutoScrape == "auto_scrape"

\* f"{exam_type}_{int(time.time() * 1000)}": the clock counts milliseconds,
\* and calls made within one millisecond read the same value
notification_id(exam_type, now) == [exam_type |-> exam_type, ms |-> now]

\* QueuedNotification(...) as add_notification constructs it
NewNotification(uid, notification_data) ==
  [uid |-> uid, notification_data |-> notification_data, status |-> "PENDING",
   attempts |-> 0, max_attempts |-> DefaultMaxAttempts]

to_dict(n) == [n EXCEPT !.status = StatusValue(n.status)]
from_dict(d) == [d EXCEPT !.status = StatusOf(d.status)]

\* the filter of _load_queue with SENDING taken for a queued status as well
load_filter_with_sending(notification) ==
  notification.status \in {"PENDING", "RETRY", "SENDING"}

\* `notification.status in [PENDING, RETRY]` of _load_queue
load_filter(notification) == notification.status \in {"PENDING", "RETRY"}

\* the retry test with <= in place of <
may_retry_off_by_one(notification) ==
  notification.attempts <= notification.max_attempts

\* `notification.attempts < notification.max_attempts`
may_retry(notification) == notification.attempts < notification.max_attempts

\* get_queue_status()['status_counts'], read from the persisted document
get_queue_status ==
  [v \in StatusValues |->
     IF ~queue_file.exists THEN 0
     ELSE Cardinality({i \in 1..Len(queue_file.queue) :
                          queue_file.queue[i].status = v})]

(***************************************************************************)
(* _save_queue, run by thread t: drain the live queue into a temporary     *)
(* queue while collecting to_dict() of each item, put the items back,      *)
(* write the document.  Each Queue operation is one step.                  *)
(***************************************************************************)
BeginSave(t) == [sv EXCEPT ![t] = [pc |-> "drain", temp |-> <<>>, queue_items |-> <<>>]]

\* queue.empty() and get_nowait() of the first loop
SaveDrain(t) ==
  /\ boot = "up"
  /\ sv[t].pc = "drain"
  /\ IF queue # <<>>
     THEN /\ queue' = Tail(queue)
          /\ sv' = [sv EXCEPT ![t].temp = Append(@, Head(queue)),
                              ![t].queue_items = Append(@, to_dict(mem[Head(queue)]))]
     ELSE /\ sv' = [sv EXCEPT ![t].pc = IF sv[t].temp = <<>> THEN "write" ELSE "refill"]
          /\ UNCHANGED queue
  /\ UNCHANGED <<mem, queue_file, processing, boot, load_idx, w_pc, w_cur,
                 c_pc, c_cur, hist, enqueued, reached, recon_vars, cls_vars,
                 ids, ext_vars>>

\* self.queue.put(temp_queue.get_nowait()) of the second loop
SaveRefill(t) ==
  /\ boot = "up"
  /\ sv[t].pc = "refill"
  /\ queue' = Append(queue, Head(sv[t].temp))
  /\ sv' = [sv EXCEPT ![t].temp = Tail(@),
                      ![t].pc = IF Len(sv[t].temp) = 1 THEN "write" ELSE "refill"]
  /\ UNCHANGED <<mem, queue_file, processing, boot, load_idx, w_pc, w_cur,
                 c_pc, c_cur, hist, enqueued, reached, recon_vars, cls_vars,
                 ids, ext_vars>>

\* the write of the document ends _save_queue; the caller of _save_queue
\* (add_notification or _process_notification) then returns
SaveWrite(t) ==
  /\ boot = "up"
  /\ sv[t].pc = "write"
  /\ queue_file' = [exists |-> TRUE, queue |-> sv[t].queue_items]
  /\ sv' = [sv EXCEPT ![t] = NoSave]
  /\ IF t = "caller"
     THEN /\ c_pc' = "idle"
          /\ c_cur' = 0
          /\ enqueued' = enqueued \cup {c_cur}
          /\ UNCHANGED <<w_pc, w_cur>>
     ELSE /\ w_pc' = "get"
          /\ w_cur' = 0
          /\ UNCHANGED <<c_pc, c_cur, enqueued>>
  /\ UNCHANGED <<mem, queue, processing, boot, load_idx, hist,
                 reached, recon_vars, cls_vars,
                 ids, ext_vars>>

(***************************************************************************)
(* add_notification up to its call of _save_queue                          *)
(***************************************************************************)
AddNotification(notification_data) ==
  /\ boot = "up"
  /\ c_pc = "idle"
  /\ Len(hist) < MaxItems
  /\ LET uid == Len(hist) + 1
     IN  /\ mem' = (uid :> NewNotification(uid, notification_data)) @@ mem
         /\ queue' = Append(queue, uid)
         /\ c_cur' = uid
  /\ ids' = Append(ids, notification_id(AutoScrape, clock))
  /\ hist' = Append(hist, ZeroHist)
  /\ c_pc' = "save"
  /\ sv' = BeginSave("caller")
  /\ UNCHANGED <<queue_file, processing, boot, load_idx, w_pc, w_cur,
                 enqueued, reached, recon_vars, cls_vars, ext_vars>>

(***************************************************************************)
(* Worker thread: _process_queue and _process_notification                 *)
(***************************************************************************)
\* queue.get(), then status = SENDING and attempts += 1
WorkerTake ==
  /\ boot = "up"
  /\ processing
  /\ w_pc = "get"
  /\ queue # <<>>
  /\ w_cur' = Head(queue)
  /\ queue' = Tail(queue)
  /\ mem' = [mem EXCEPT ![Head(queue)].status = "SENDING",
                        ![Head(queue)].attempts = @ + 1]
  /\ w_pc' = "send"
  /\ UNCHANGED <<queue_file, processing, boot, load_idx, c_pc, c_cur, sv,
                 hist, enqueued, reached, recon_vars, cls_vars,
                 ids, ext_vars>>

\* the item marked RETRY is left out of the live queue
put_back_skipped(q, uid) == q

\* `self.queue.put(notification)` of the retry branch
put_back(q, uid) == Append(q, uid)

\* the webhook call and the handling of its result, up to _save_queue
WorkerSend(success) ==
  /\ boot = "up"
  /\ w_pc = "send"
  /\ LET notification == mem[w_cur]
     IN  IF success
         THEN /\ mem' = [mem EXCEPT ![w_cur].status = "SENT"]
              /\ hist' = [hist EXCEPT ![w_cur].sends = @ + 1]
              /\ reached' = reached \cup {w_cur}
              /\ UNCHANGED queue
         ELSE IF may_retry(notification)
         THEN /\ mem' = [mem EXCEPT ![w_cur].status = "RETRY"]
              /\ queue' = put_back(queue, w_cur)
              /\ hist' = [hist EXCEPT ![w_cur].sends = @ + 1, ![w_cur].retries = @ + 1]
              /\ UNCHANGED reached
         ELSE /\ mem' = [mem EXCEPT ![w_cur].status = "FAILED"]
              /\ hist' = [hist EXCEPT ![w_cur].sends = @ + 1]
              /\ reached' = reached \cup {w_cur}
              /\ UNCHANGED queue
  /\ w_pc' = "save"
  /\ sv' = BeginSave("worker")
  /\ UNCHANGED <<queue_file, processing, boot, load_idx, w_cur, c_pc, c_cur,
                 enqueued, recon_vars, cls_vars,
                 ids, ext_vars>>

(***************************************************************************)
(* Process crash and restart: the heap and the threads are lost, the       *)
(* document stays; __init__ of the new process then runs _load_queue and   *)
(* _start_processor.                                                       *)
(***************************************************************************)
Crash ==
  /\ boot = "up"
  /\ mem' = <<>>
  /\ queue' = <<>>
  /\ processing' = FALSE
  /\ boot' = "loading"
  /\ load_idx' = 1
  /\ w_pc' = "get"
  /\ w_cur' = 0
  /\ c_pc' = "idle"
  /\ c_cur' = 0
  /\ sv' = [t \in Threads |-> NoSave]
  /\ UNCHANGED <<queue_file, hist, enqueued, reached, recon_vars, cls_vars,
                 ids, ext_vars>>

LoadDone == ~queue_file.exists \/ load_idx > Len(queue_file.queue)

\* one iteration of the loop of _load_queue
LoadStep ==
  /\ boot = "loading"
  /\ ~LoadDone
  /\ LET notification == from_dict(queue_file.queue[load_idx])
     IN  /\ mem' = (notification.uid :> notification) @@ mem
         /\ queue' = IF load_filter(notification)
                     THEN Append(queue, notification.uid) ELSE queue
  /\ load_idx' = load_idx + 1
  /\ UNCHANGED <<queue_file, processing, boot, w_pc, w_cur, c_pc, c_cur, sv,
                 hist, enqueued, reached, recon_vars, cls_vars,
                 ids, ext_vars>>

StartProcessor ==
  /\ boot = "loading"
  /\ LoadDone
  /\ ~processing
  /\ processing' = TRUE
  /\ boot' = "up"
  /\ UNCHANGED <<mem, queue, queue_file, load_idx, w_pc, w_cur, c_pc, c_cur,
                 sv, hist, enqueued, reached, recon_vars, cls_vars,
                 ids, ext_vars>>

(***************************************************************************)
(* Reconciliation cycle: NotificationManager.process_next_scrape_cycle     *)
(***************************************************************************)
\* add_batch_notifications run to completion by the cycle's thread: each
\* add_notification puts one new item and saves the queue
RECURSIVE add_batch_notifications(_, _)
add_batch_notifications(st, notifications) ==
  IF notifications = <<>> THEN st
  ELSE LET n == NewNotification(Len(st.hist) + 1, Head(notifications))
           m == (n.uid :> n) @@ st.mem
           q == Append(st.queue, n.uid)
       IN  add_batch_notifications(
             [mem |-> m, queue |-> q, hist |-> Append(st.hist, ZeroHist),
              ids |-> Append(st.ids, notification_id(AutoScrape, clock)),
              enqueued |-> st.enqueued \cup {n.uid},
              file |-> [exists |-> TRUE,
                        queue |-> [i \in 1..Len(q) |-> to_dict(m[q[i]])]]],
             Tail(notifications))

\* the collection without the jee_adv list
collect_notifications_without_jee_adv(notification_data) ==
  notification_data.jee \o notification_data.gate \o notification_data.upsc

\* _send_webhook_for_new_notifications: the delta's lists in the order
\* jee, gate, jee_adv, upsc
collect_notifications(notification_data) ==
  notification_data.jee \o notification_data.gate
    \o notification_data.jee_adv \o notification_data.upsc

NoReingest == [phase |-> "none", batch |-> <<>>, n |-> 0, fresh |-> FALSE,
               stats1 |-> [new_items |-> 0, updated_items |-> 0, new_notifications |-> 0],
               total1 |-> 0]

\* the hashes of the batch are non-empty, pairwise distinct and unknown to
\* the canonical snapshot
FreshBatch(batch) ==
  /\ \A i \in 1..Len(batch) : batch[i].content_hash # ""
  /\ \A i, j \in 1..Len(batch) : i # j => batch[i].content_hash # batch[j].content_hash
  /\ \A i \in 1..Len(batch) :
       batch[i].content_hash \notin get_existing_hashes(get_existing_data)

CycleEffect(new_scraped_data) ==
  \E result \in {process_new_scraped_data(new_scraped_data)} :
  \E has_new \in {result.notification_data.total_new_notifications > 0} :
  \E q \in {add_batch_notifications(
             [mem |-> mem, queue |-> queue, hist |-> hist, ids |-> ids,
              enqueued |-> enqueued, file |-> queue_file],
             IF has_new THEN collect_notifications(result.notification_data)
             ELSE <<>>)} :
      /\ boot = "up"
      /\ main_data_file' = [exists |-> TRUE, data |-> result.main_data]
      /\ notification_file' =
           IF has_new THEN [exists |-> TRUE, data |-> result.notification_data]
           ELSE clear_notifications
      /\ last_stats' = result.stats
      /\ mem' = q.mem
      /\ queue' = q.queue
      /\ hist' = q.hist
      /\ ids' = q.ids
      /\ enqueued' = q.enqueued
      /\ queue_file' = q.file
      /\ UNCHANGED <<processing, boot, load_idx, w_pc, w_cur, c_pc, c_cur, sv,
                     reached, cls_vars>>

ProcessNextScrapeCycle(new_scraped_data) ==
  /\ reingest.phase = "none"
  /\ CycleEffect(new_scraped_data)
  /\ UNCHANGED <<reingest, ext_vars>>

\* a cycle whose batch is kept to be fed a second time
FirstIngest(new_scraped_data) ==
  /\ reingest.phase = "none"
  /\ CycleEffect(new_scraped_data)
  /\ reingest' = [phase |-> "first", batch |-> new_scraped_data,
                  n |-> Len(new_scraped_data),
                  fresh |-> FreshBatch(new_scraped_data),
                  stats1 |-> last_stats',
                  total1 |-> main_data_file'.data.total_notification]
  /\ UNCHANGED ext_vars

\* the next cycle, fed the batch of the previous one; the experiment ends here
Reingest ==
  /\ reingest.phase = "first"
  /\ CycleEffect(reingest.batch)
  /\ reingest' = [reingest EXCEPT !.phase = "second", !.batch = <<>>]
  /\ UNCHANGED ext_vars

\* scrape_all_websites when no scraper returned a new update:
\* clear_notifications() only
ScrapeNoUpdates ==
  /\ boot = "up"
  /\ reingest.phase = "none"
  /\ notification_file' = clear_notifications
  /\ last_stats' = [new_items |-> 0, updated_items |-> 0, new_notifications |-> 0]
  /\ UNCHANGED <<main_data_file, reingest, queue_vars, cls_vars, ext_vars>>

(***************************************************************************)
(* determine_category applied to one record                                *)
(***************************************************************************)
ClassifySources ==
  {"JEE Advanced Board", "NTA JEE Main", "GATE 2025", "UPSC", "IIT JEEADV Portal",
   "jee advanced gate", "Aggregate News", "upsc jee", "Portal", "",
   "JeE AdVaNcEd", "Demo Exam Portal"}
ClassifyExamTypes ==
  {"", "jee", "gate", "upsc", "jee_advanced", "JEE Advanced", "jeeadv",
   "unknown", "JEE"}

Classify ==
  /\ cls_result = "none"
  /\ cls_result' = determine_category(cls_update)
  /\ UNCHANGED <<cls_update, recon_vars, queue_vars, ext_vars>>

(***************************************************************************)
(* Snapshot files as stored.  A file is [exists, text, mtime, of]: text is *)
(* what json.dump has written so far, a sequence of tokens; `of` is the    *)
(* document the latest save was given.  None is -1 where a timestamp is    *)
(* expected.                                                               *)
(***************************************************************************)
MaxClock == 11
MillisPerSecond == 2      \* the model's second (1000 in the source)
DefaultKeepCount == 5

None == -1
SnapshotFiles == {"main", "delta"}
NoItem == [source |-> "", scraped_at |-> 0, content_hash |-> ""]
SnapItems == { [source |-> "Portal", scraped_at |-> 1, content_hash |-> "h1"],
               [source |-> "JEE Advanced Board", scraped_at |-> 2, content_hash |-> "h2"] }

\* the default structure of get_existing_data
DefaultMainData ==
  [jee |-> <<>>, gate |-> <<>>, jee_adv |-> <<>>, upsc |-> <<>>,
   total_notification |-> 0, last_updated |-> None, last_scrape |-> None]

\* the default structure of get_notification_data
DefaultNotificationData ==
  [jee |-> <<>>, gate |-> <<>>, jee_adv |-> <<>>, upsc |-> <<>>,
   total_new_notifications |-> 0, last_updated |-> None, scrape_timestamp |-> None]

DefaultOf(f) == IF f = "main" THEN DefaultMainData ELSE DefaultNotificationData

\* documents handed to save_main_data and save_notifications
MainDocs ==
  { [jee |-> <<>>, gate |-> g, jee_adv |-> a, upsc |-> <<>>,
     total_notification |-> Len(g) + Len(a), last_updated |-> 1, last_scrape |-> 1] :
       g \in {<<>>, <<[source |-> "Portal", scraped_at |-> 1, content_hash |-> "h1"]>>},
       a \in {<<>>, <<[source |-> "JEE Advanced Board", scraped_at |-> 2,
                       content_hash |-> "h2"]>>} }

NotificationDocs ==
  { [jee |-> <<>>, gate |-> <<x>>, jee_adv |-> <<>>, upsc |-> <<>>,
     total_new_notifications |-> 1, last_updated |-> 1, scrape_timestamp |-> 1] :
       x \in SnapItems }

\* the documents saved while the backups are watched
BackupDocs == {d \in MainDocs : d.total_notification = 0}


\* json.dump(data, f): "{", the items of the four lists in key order, the
\* three scalar keys, "}"
Token(kind, cat, item, a, b, c) ==
  [kind |-> kind, cat |-> cat, item |-> item, a |-> a, b |-> b, c |-> c]

ItemTokens(data, cat) ==
  [i \in 1..Len(data[cat]) |-> Token("item", cat, data[cat][i], 0, 0, 0)]

json_dump(data, f) ==
  <<Token("{", "", NoItem, 0, 0, 0)>>
    \o ItemTokens(data, "jee") \o ItemTokens(data, "gate")
    \o ItemTokens(data, "jee_adv") \o ItemTokens(data, "upsc")
    \o <<IF f = "main"
         THEN Token("scalars", "", NoItem, data.total_notification,
                    data.last_updated, data.last_scrape)
         ELSE Token("scalars", "", NoItem, data.total_new_notifications,
                    data.last_updated, data.scrape_timestamp)>>
    \o <<Token("}", "", NoItem, 0, 0, 0)>>

\* the text is one complete JSON object
WellFormed(text) ==
  /\ Len(text) >= 3
  /\ text[1].kind = "{"
  /\ text[Len(text)].kind = "}"
  /\ text[Len(text) - 1].kind = "scalars"
  /\ \A i \in 2..(Len(text) - 2) : text[i].kind = "item"

RECURSIVE ItemsOf(_, _, _)
ItemsOf(text, cat, i) ==
  IF i > Len(text) THEN <<>>
  ELSE IF text[i].kind = "item" /\ text[i].cat = cat
       THEN <<text[i].item>> \o ItemsOf(text, cat, i + 1)
       ELSE ItemsOf(text, cat, i + 1)

\* what the parser has built from the text it could read, error or not
ParsedSoFar(text, f) ==
  LET s == IF Len(text) >= 2 /\ text[Len(text)].kind = "scalars"
           THEN text[Len(text)]
           ELSE IF Len(text) >= 3 /\ text[Len(text) - 1].kind = "scalars"
           THEN text[Len(text) - 1]
           ELSE Token("scalars", "", NoItem, 0, None, None)
  IN  IF f = "main"
      THEN [jee |-> ItemsOf(text, "jee", 1), gate |-> ItemsOf(text, "gate", 1),
            jee_adv |-> ItemsOf(text, "jee_adv", 1), upsc |-> ItemsOf(text, "upsc", 1),
            total_notification |-> s.a, last_updated |-> s.b, last_scrape |-> s.c]
      ELSE [jee |-> ItemsOf(text, "jee", 1), gate |-> ItemsOf(text, "gate", 1),
            jee_adv |-> ItemsOf(text, "jee_adv", 1), upsc |-> ItemsOf(text, "upsc", 1),
            total_new_notifications |-> s.a, last_updated |-> s.b,
            scrape_timestamp |-> s.c]

\* json.load(f): the document, or an exception
json_load(text, f) ==
  IF WellFormed(text) THEN [raised |-> FALSE, value |-> ParsedSoFar(text, f)]
  ELSE [raised |-> TRUE, value |-> DefaultOf(f)]

\* the loader without its except branch: whatever the parser had built
load_snapshot_unguarded(file, f) ==
  IF ~file.exists THEN DefaultOf(f) ELSE ParsedSoFar(file.text, f)

\* get_existing_data (f = "main") and get_notification_data (f = "delta")
\* over the stored bytes
load_snapshot(file, f) ==
  IF ~file.exists THEN DefaultOf(f)
  ELSE LET r == json_load(file.text, f)
       IN  IF r.raised THEN DefaultOf(f) ELSE r.value

MissingFile(f) == [exists |-> FALSE, text |-> <<>>, mtime |-> 0, of |-> DefaultOf(f)]
\* keep and removed record the latest cleanup: its keep_count and the number
\* of files it removed
IoIdle == [pc |-> "idle", f |-> "main", data |-> DefaultMainData,
           keep |-> DefaultKeepCount, removed |-> 0]
NoRead == [done |-> FALSE, f |-> "main", seen |-> MissingFile("main"),
           result |-> DefaultMainData]

snap_rest == <<recon_vars, queue_vars, cls_vars, clr, cyc, scrape_vars, sch, aux_vars>>

\* datetime.now().strftime("%Y%m%d_%H%M%S"): the clock cut to whole seconds
strftime_seconds(now) == now \div MillisPerSecond

\* shutil.copy2(main_data_file, backup_file): content and mtime of the
\* source, over a backup of the same name if there is one
copy2_backup(files, now) ==
  {b \in files : b.name # strftime_seconds(now)}
    \cup {[name |-> strftime_seconds(now), mtime |-> disk["main"].mtime]}

Min(a, b) == IF a <= b THEN a ELSE b

\* the sets a cleanup may keep when it keeps the oldest files
kept_by_cleanup_oldest(files, keep_count) ==
  { K \in SUBSET files :
      /\ Cardinality(K) = Min(keep_count, Cardinality(files))
      /\ \A k \in K, r \in files \ K : k.mtime <= r.mtime }

\* cleanup_old_backups: sort by mtime, newest first, remove all after the
\* first keep_count; files of equal mtime sort in the order of os.listdir
kept_by_cleanup(files, keep_count) ==
  { K \in SUBSET files :
      /\ Cardinality(K) = Min(keep_count, Cardinality(files))
      /\ \A k \in K, r \in files \ K : k.mtime >= r.mtime }

\* save_main_data up to its open(): the backup and the cleanup
save_main_data_backup(data) ==
  /\ io.pc = "idle"
  /\ IF disk["main"].exists /\ Len(disk["main"].text) > 0
     THEN /\ backups' \in kept_by_cleanup(copy2_backup(backups, clock), DefaultKeepCount)
          /\ io' = [pc |-> "open", f |-> "main", data |-> data,
                    keep |-> DefaultKeepCount,
                    removed |-> Cardinality(copy2_backup(backups, clock) \ backups')]
     ELSE /\ UNCHANGED backups
          /\ io' = [io EXCEPT !.pc = "open", !.f = "main", !.data = data]

SaveMainData(data) ==
  /\ save_main_data_backup(data)
  /\ UNCHANGED <<clock, disk, rd, snap_rest>>

\* save_notifications up to its open()
SaveNotifications(notification_data) ==
  /\ io.pc = "idle"
  /\ io' = [io EXCEPT !.pc = "open", !.f = "delta", !.data = notification_data]
  /\ UNCHANGED <<clock, disk, rd, backups, snap_rest>>

\* open(file, 'w'): the file exists and is empty
SnapOpen ==
  /\ io.pc = "open"
  /\ disk' = [disk EXCEPT ![io.f] = [exists |-> TRUE, text |-> <<>>,
                                      mtime |-> clock, of |-> io.data]]
  /\ io' = [io EXCEPT !.pc = "write"]
  /\ UNCHANGED <<clock, rd, backups, snap_rest>>

\* json.dump reaches the file piece by piece; the last piece ends the save
SnapWrite ==
  /\ io.pc = "write"
  /\ LET whole == json_dump(io.data, io.f)
         text == Append(disk[io.f].text, whole[Len(disk[io.f].text) + 1])
     IN  /\ disk' = [disk EXCEPT ![io.f].text = text, ![io.f].mtime = clock]
         /\ io' = [io EXCEPT !.pc = IF text = whole THEN "idle" ELSE "write"]
  /\ UNCHANGED <<clock, rd, backups, snap_rest>>

\* clear_notifications() on the stored delta file
RemoveNotificationFile ==
  /\ io.pc = "idle"
  /\ disk["delta"].exists
  /\ disk' = [disk EXCEPT !["delta"] = MissingFile("delta")]
  /\ UNCHANGED <<clock, io, rd, backups, snap_rest>>

\* a web request (another thread) loads a snapshot
ReadSnapshot(f) ==
  /\ rd' = [done |-> TRUE, f |-> f, seen |-> disk[f],
            result |-> load_snapshot(disk[f], f)]
  /\ UNCHANGED <<clock, disk, io, backups, snap_rest>>

KeepCounts == {0, 1, DefaultKeepCount}

\* cleanup_old_backups(keep_count) called on its own
CleanupOldBackups(keep_count) ==
  /\ io.pc = "idle"
  /\ backups' \in kept_by_cleanup(backups, keep_count)
  /\ io' = [io EXCEPT !.keep = keep_count,
                      !.removed = Cardinality(backups \ backups')]
  /\ UNCHANGED <<clock, disk, rd, snap_rest>>

Tick ==
  /\ clock < MaxClock
  /\ clock' = clock + 1
  /\ UNCHANGED <<recon_vars, queue_vars, cls_vars, snap_vars, clr, cyc,
                 scrape_vars, sch, aux_vars>>

(***************************************************************************)
(* clear_queue, run by the thread of a web request.  clr.before holds the  *)
(* items that existed when it was called, clr.mem the heap as it was when  *)
(* the call returned.                                                      *)
(***************************************************************************)
ClrIdle == [pc |-> "idle", done |-> FALSE, before |-> {}, mem |-> <<>>]
clr_rest == <<recon_vars, cls_vars, clock, snap_vars, cyc, scrape_vars, sch, aux_vars>>

\* the call of clear_queue
ClearQueue ==
  /\ boot = "up"
  /\ clr.pc = "idle"
  /\ ~clr.done
  /\ clr' = [clr EXCEPT !.pc = "drain", !.before = DOMAIN mem]
  /\ UNCHANGED <<queue_vars, clr_rest>>

\* queue.empty() and get_nowait() of its loop
ClearDrain ==
  /\ clr.pc = "drain"
  /\ IF queue # <<>>
     THEN queue' = Tail(queue) /\ UNCHANGED clr
     ELSE clr' = [clr EXCEPT !.pc = "remove"] /\ UNCHANGED queue
  /\ UNCHANGED <<mem, queue_file, processing, boot, load_idx, w_pc, w_cur,
                 c_pc, c_cur, sv, hist, enqueued, reached, ids, clr_rest>>

\* os.remove(queue_file) when the file exists; clear_queue returns
ClearRemove ==
  /\ clr.pc = "remove"
  /\ queue_file' = [exists |-> FALSE, queue |-> <<>>]
  /\ clr' = [clr EXCEPT !.pc = "idle", !.done = TRUE, !.mem = mem]
  /\ UNCHANGED <<mem, queue, processing, boot, load_idx, w_pc, w_cur,
                 c_pc, c_cur, sv, hist, enqueued, reached, ids, clr_rest>>

(***************************************************************************)
(* The scrape cycle: MCPExamScrapingServer.scrape_all_websites with        *)
(* DataStorage.save_updates and log_scraping_attempt.  db is the set of    *)
(* content hashes of the updates table.                                    *)
(***************************************************************************)
MaxCycles == 2

\* self.scrapers, in the order of the dict
ScraperNames == <<"JEE Advanced Board", "Portal">>

RecordOf(name, h, t) ==
  [content_hash |-> h, title |-> "Notice", source |-> name,
   exam_type |-> IF name = "Portal" THEN "GATE" ELSE "", scraped_at |-> t]

\* what scraper.scrape() may return; a raised exception is [raised |-> TRUE]
ScrapeResults(name) ==
  IF name = "Portal"
  THEN {<<>>, <<RecordOf(name, "h1", 1)>>}
  ELSE {<<>>, <<RecordOf(name, "h1", 1)>>, <<RecordOf(name, "h2", 2)>>,
        <<RecordOf(name, "h1", 1), RecordOf(name, "h2", 2)>>}

ScrapeOutcomes(name) ==
  {[raised |-> TRUE, updates |-> <<>>]}
    \cup {[raised |-> FALSE, updates |-> u] : u \in ScrapeResults(name)}

CycleOutcomes ==
  { <<a, b>> : a \in ScrapeOutcomes(ScraperNames[1]),
               b \in ScrapeOutcomes(ScraperNames[2]) }

\* SELECT id FROM updates WHERE content_hash = ?
select_by_hash(table, content_hash) ==
  {i \in 1..Len(table) : table[i] = content_hash}

\* save_updates that reports every update it was given as new
RECURSIVE save_updates_returns_all(_, _)
save_updates_returns_all(st, updates) ==
  IF updates = <<>> THEN st
  ELSE IF select_by_hash(st.db, Head(updates).content_hash) # {}
       THEN save_updates_returns_all(
              [st EXCEPT !.new_updates = Append(@, Head(updates))], Tail(updates))
       ELSE save_updates_returns_all(
              [db |-> Append(st.db, Head(updates).content_hash),
               new_updates |-> Append(st.new_updates, Head(updates))],
              Tail(updates))

\* save_updates: a row is inserted for every update whose content_hash the
\* SELECT does not find, and only those updates are returned
RECURSIVE save_updates(_, _)
save_updates(st, updates) ==
  IF updates = <<>> THEN st
  ELSE IF select_by_hash(st.db, Head(updates).content_hash) # {}
       THEN save_updates(st, Tail(updates))
       ELSE save_updates([db |-> Append(st.db, Head(updates).content_hash),
                          new_updates |-> Append(st.new_updates, Head(updates))],
                         Tail(updates))

\* the hashes the table holds
stored_hashes(table) == {table[i] : i \in 1..Len(table)}

LogRow(source, status, updates_found) ==
  [source |-> source, status |-> status, updates_found |-> updates_found]

\* one iteration of the loop over self.scrapers
scrape_one(st, name, outcome) ==
  IF outcome.raised
  THEN [st EXCEPT !.log = Append(@, LogRow(name, "error", 0)),
                  !.invoked = Append(@, name)]
  ELSE IF outcome.updates # <<>>
  THEN LET saved == save_updates([db |-> st.db, new_updates |-> <<>>], outcome.updates)
       IN  [db |-> saved.db,
            all_new_updates |-> st.all_new_updates \o saved.new_updates,
            log |-> Append(st.log, LogRow(name, "success", Len(saved.new_updates))),
            invoked |-> Append(st.invoked, name)]
  ELSE [st EXCEPT !.log = Append(@, LogRow(name, "success", 0)),
                  !.invoked = Append(@, name)]

\* the loop, left at the first scraper that raises
RECURSIVE scrape_loop_until_error(_, _, _)
scrape_loop_until_error(st, outcomes, i) ==
  IF i > Len(ScraperNames) THEN st
  ELSE IF outcomes[i].raised THEN scrape_one(st, ScraperNames[i], outcomes[i])
  ELSE scrape_loop_until_error(scrape_one(st, ScraperNames[i], outcomes[i]),
                               outcomes, i + 1)

RECURSIVE scrape_loop(_, _, _)
scrape_loop(st, outcomes, i) ==
  IF i > Len(ScraperNames) THEN st
  ELSE scrape_loop(scrape_one(st, ScraperNames[i], outcomes[i]), outcomes, i + 1)

NoCycle == [ran |-> FALSE, outcomes |-> <<>>, invoked |-> <<>>, batch |-> <<>>,
            db_before |-> {}, log_before |-> 0]

\* the branch taken when no scraper returned a new update
NoNewUpdates ==
  /\ boot = "up"
  /\ notification_file' = clear_notifications
  /\ last_stats' = [new_items |-> 0, updated_items |-> 0, new_notifications |-> 0]
  /\ UNCHANGED <<main_data_file, queue_vars, cls_vars>>

ScrapeAllWebsites(outcomes) ==
  \E st \in {scrape_loop([db |-> db, all_new_updates |-> <<>>,
                          log |-> scraping_log, invoked |-> <<>>], outcomes, 1)} :
    /\ reingest.phase = "none"
    /\ Len(scraping_log) < MaxCycles * Len(ScraperNames)
    /\ db' = st.db
    /\ scraping_log' = st.log
    /\ last_cycle' = [ran |-> TRUE, outcomes |-> outcomes, invoked |-> st.invoked,
                      batch |-> st.all_new_updates, db_before |-> stored_hashes(db),
                      log_before |-> Len(scraping_log)]
    /\ IF st.all_new_updates # <<>>
       THEN CycleEffect(st.all_new_updates)
       ELSE NoNewUpdates
    /\ UNCHANGED <<reingest, clock, snap_vars, clr, cyc, sch, aux_vars>>

(***************************************************************************)
(* process_next_scrape_cycle step by step: the reconciliation with the     *)
(* save of the canonical snapshot, the save of the delta, the enqueue.     *)
(***************************************************************************)
NoResult == [main_data |-> EmptyMainData, notification_data |-> EmptyNotificationData,
             stats |-> [new_items |-> 0, updated_items |-> 0, new_notifications |-> 0]]
CycIdle == [pc |-> "idle", result |-> NoResult]
cyc_rest == <<reingest, cls_vars, clock, snap_vars, clr, scrape_vars, sch, aux_vars>>

\* clear_notifications, process_new_scraped_data, save_main_data
CycleBegin(new_scraped_data) ==
  \E result \in {process_new_scraped_data(new_scraped_data)} :
    /\ boot = "up"
    /\ cyc.pc = "idle"
    /\ main_data_file' = [exists |-> TRUE, data |-> result.main_data]
    /\ notification_file' = clear_notifications
    /\ last_stats' = result.stats
    /\ cyc' = [pc |-> "saved_main", result |-> result]
    /\ UNCHANGED <<queue_vars, cyc_rest>>

\* the test of total_new_notifications and save_notifications
CycleSaveNotifications ==
  /\ cyc.pc = "saved_main"
  /\ IF cyc.result.notification_data.total_new_notifications > 0
     THEN /\ notification_file' = [exists |-> TRUE, data |-> cyc.result.notification_data]
          /\ cyc' = [cyc EXCEPT !.pc = "enqueue"]
     ELSE /\ cyc' = CycIdle
          /\ UNCHANGED notification_file
  /\ UNCHANGED <<main_data_file, last_stats, queue_vars, cyc_rest>>

\* _send_webhook_for_new_notifications; the cycle returns
CycleEnqueue ==
  \E q \in {add_batch_notifications(
             [mem |-> mem, queue |-> queue, hist |-> hist, ids |-> ids,
              enqueued |-> enqueued, file |-> queue_file],
             collect_notifications(cyc.result.notification_data))} :
    /\ cyc.pc = "enqueue"
    /\ mem' = q.mem
    /\ queue' = q.queue
    /\ hist' = q.hist
    /\ ids' = q.ids
    /\ enqueued' = q.enqueued
    /\ queue_file' = q.file
    /\ cyc' = CycIdle
    /\ UNCHANGED <<main_data_file, notification_file, last_stats, processing, boot,
                   load_idx, w_pc, w_cur, c_pc, c_cur, sv, reached, cyc_rest>>

(***************************************************************************)
(* The Scheduler and the shutdown of server mode.  sch holds is_running,   *)
(* the jobs of the schedule module, the _run_scheduler threads, the cycles *)
(* begun (thread 0 is the caller of start) and whether the process lives.  *)
(***************************************************************************)
SCRAPE_INTERVAL == 1800
MinutesPerTick == 15     \* the tick of the Scheduler's clock
\* schedule.every(SCRAPE_INTERVAL // 60).minutes, in ticks
IntervalTicks == (SCRAPE_INTERVAL \div 60) \div MinutesPerTick
MaxStartCalls == 2
\* cycles begun by the timer threads, as many as calls of start
MaxRuns == MaxStartCalls
\* the clock of the Scheduler runs until the interval job has been due
SchedHorizon == IntervalTicks + 1

JobKinds == {"interval", "daily", "weekly"}
\* the daily and the weekly job are due beyond the horizon
Period(kind) == IF kind = "interval" THEN IntervalTicks ELSE SchedHorizon + 1

\* what a cycle with new updates writes: the canonical snapshot and the delta
CycleWrites ==
  { w \in [main : MainDocs, delta : NotificationDocs] :
      w.main.gate = w.delta.gate /\ w.main.jee_adv = <<>> }
NoWrites == [main |-> DefaultMainData, delta |-> DefaultNotificationData]

SchInit == [alive |-> TRUE, is_running |-> FALSE, jobs |-> {}, regs |-> 0,
            threads |-> <<>>, runs |-> <<>>, calls |-> 0, ignored |-> 0]
sch_rest == <<recon_vars, queue_vars, cls_vars, clr, cyc, scrape_vars, aux_vars>>

Job(reg, kind, next_run) == [reg |-> reg, kind |-> kind, next_run |-> next_run]
NewRun(thread, job) == [thread |-> thread, pc |-> "scraping", job |-> job, w |-> NoWrites]
NoJob == Job(0, "", 0)

\* start() without the test of is_running
start_unguarded(s, now) ==
  [s EXCEPT !.is_running = TRUE,
            !.regs = @ + 1,
            !.jobs = @ \cup {Job(s.regs + 1, kind, now + Period(kind)) : kind \in JobKinds},
            !.threads = Append(@, "loop"),
            !.runs = Append(@, NewRun(0, NoJob)),
            !.calls = @ + 1]

\* Scheduler.start up to the call of scraping_function inside run_scraping
start(s, now) ==
  IF s.is_running
  THEN [s EXCEPT !.calls = @ + 1, !.ignored = @ + 1]
  ELSE start_unguarded(s, now)

\* Scheduler.stop
stop(s) == [s EXCEPT !.is_running = FALSE, !.jobs = {}]

Start ==
  /\ sch.alive
  /\ sch.calls < MaxStartCalls
  /\ sch' = start(sch, clock)
  /\ UNCHANGED <<clock, snap_vars, sch_rest>>

Stop ==
  /\ sch.alive
  /\ sch' = stop(sch)
  /\ UNCHANGED <<clock, snap_vars, sch_rest>>

\* main.py on KeyboardInterrupt: stop_scheduler(), then sys.exit(0); the
\* server thread and the scheduler thread are daemon threads
Shutdown ==
  /\ sch.alive
  /\ sch' = [stop(sch) EXCEPT !.alive = FALSE]
  /\ UNCHANGED <<clock, snap_vars, sch_rest>>

\* _run_scheduler: run_pending finds a job that is due
TimerFire(k, job) ==
  /\ sch.alive
  /\ sch.threads[k] = "loop"
  /\ sch.is_running
  /\ job \in sch.jobs
  /\ clock >= job.next_run
  /\ Len(sch.runs) < MaxRuns
  /\ sch' = [sch EXCEPT !.threads[k] = "job",
                        !.runs = Append(@, NewRun(k, job))]
  /\ UNCHANGED <<clock, snap_vars, sch_rest>>

\* _run_scheduler: the loop ends when is_running is False
TimerExit(k) ==
  /\ sch.alive
  /\ sch.threads[k] = "loop"
  /\ ~sch.is_running
  /\ sch' = [sch EXCEPT !.threads[k] = "exited"]
  /\ UNCHANGED <<clock, snap_vars, sch_rest>>

\* run_scraping returns: the thread is back in its loop and the job that
\* ran, if still registered, gets its next run
run_returns(s, i, now) ==
  LET r == s.runs[i]
  IN  [s EXCEPT !.runs[i] = [NewRun(r.thread, NoJob) EXCEPT !.pc = "done"],
                !.threads = IF r.thread = 0 THEN @
                            ELSE [@ EXCEPT ![r.thread] = "loop"],
                !.jobs = IF r.job \in @
                         THEN (@ \ {r.job})
                                \cup {Job(r.job.reg, r.job.kind, now + Period(r.job.kind))}
                         ELSE @]

\* the cycle finds no new updates, or scraping_function raises
RunNoUpdates(i, raised) ==
  /\ sch.alive
  /\ sch.runs[i].pc = "scraping"
  /\ io.pc = "idle"
  /\ disk' = IF raised THEN disk ELSE [disk EXCEPT !["delta"] = MissingFile("delta")]
  /\ sch' = run_returns(sch, i, clock)
  /\ UNCHANGED <<clock, io, rd, backups, sch_rest>>

\* the cycle has new updates: clear_notifications, then save_main_data
RunSaveMain(i, w) ==
  /\ sch.alive
  /\ sch.runs[i].pc = "scraping"
  /\ save_main_data_backup(w.main)
  /\ disk' = [disk EXCEPT !["delta"] = MissingFile("delta")]
  /\ sch' = [sch EXCEPT !.runs[i].pc = "save_main", !.runs[i].w = w]
  /\ UNCHANGED <<clock, rd, sch_rest>>

\* save_main_data has returned: save_notifications
RunSaveDelta(i) ==
  /\ sch.alive
  /\ sch.runs[i].pc = "save_main"
  /\ io.pc = "idle"
  /\ io' = [io EXCEPT !.pc = "open", !.f = "delta", !.data = sch.runs[i].w.delta]
  /\ sch' = [sch EXCEPT !.runs[i].pc = "save_delta"]
  /\ UNCHANGED <<clock, disk, rd, backups, sch_rest>>

\* save_notifications has returned: the cycle ends
RunEnd(i) ==
  /\ sch.alive
  /\ sch.runs[i].pc = "save_delta"
  /\ io.pc = "idle"
  /\ sch' = run_returns(sch, i, clock)
  /\ UNCHANGED <<clock, snap_vars, sch_rest>>

\* POST /scrape: trigger_scrape calls run_single_scrape, i.e.
\* scrape_all_websites, on the thread that serves the request (thread 0
\* stands for every thread that is not a _run_scheduler thread)
TriggerScrape ==
  /\ sch.alive
  /\ Len(sch.runs) < MaxRuns
  /\ sch' = [sch EXCEPT !.runs = Append(@, NewRun(0, NoJob))]
  /\ UNCHANGED <<clock, snap_vars, sch_rest>>

(***************************************************************************)
(* The three jobs of the schedule over a day: the interval job, the daily  *)
(* cleanup and the weekly optimization, each of which may raise            *)
(***************************************************************************)
MaxTasks == 3
\* the clock runs until the daily and the weekly job have been due and an
\* interval has passed since
TaskHorizon == Period("daily") + IntervalTicks
Maintenance == {"daily", "weekly"}

\* the exception leaves the job function and ends the thread that ran it
exception_uncaught(s, i, now) ==
  LET r == s.runs[i]
  IN  [s EXCEPT !.runs[i] = [NewRun(r.thread, Job(0, r.job.kind, 0)) EXCEPT !.pc = "failed"],
                !.threads = IF r.thread = 0 THEN @
                            ELSE [@ EXCEPT ![r.thread] = "exited"]]

\* `except Exception as e: self.logger.error(...)` of run_scraping,
\* daily_cleanup and weekly_optimization: the job function returns
except_exception(s, i, now) ==
  [run_returns(s, i, now) EXCEPT
     !.runs[i] = [NewRun(s.runs[i].thread, Job(0, s.runs[i].job.kind, 0))
                    EXCEPT !.pc = "failed"]]

\* _run_scheduler: run_pending finds a job that is due
TaskFire(k, job) ==
  /\ sch.alive
  /\ sch.threads[k] = "loop"
  /\ sch.is_running
  /\ job \in sch.jobs
  /\ clock >= job.next_run
  /\ Len(sch.runs) < MaxTasks
  /\ sch' = [sch EXCEPT !.threads[k] = "job",
                        !.runs = Append(@, NewRun(k, job))]
  /\ UNCHANGED <<clock, snap_vars, sch_rest>>

\* scraping_function, cleanup_old_data or VACUUM raises
TaskRaises(i) ==
  /\ sch.alive
  /\ sch.runs[i].pc = "scraping"
  /\ sch' = except_exception(sch, i, clock)
  /\ UNCHANGED <<clock, snap_vars, sch_rest>>

\* daily_cleanup or weekly_optimization returns
TaskReturns(i) ==
  /\ sch.alive
  /\ sch.runs[i].pc = "scraping"
  /\ sch.runs[i].job.kind \in Maintenance
  /\ sch' = run_returns(sch, i, clock)
  /\ UNCHANGED <<clock, snap_vars, sch_rest>>

(***************************************************************************)
(* DataStorage.save_updates called on its own                              *)
(***************************************************************************)
StorageRecords ==
  {RecordOf(ScraperNames[i], h, 1) : i \in 1..Len(ScraperNames), h \in {"h1", "h2"}}
StorageBatches == SeqsUpTo(StorageRecords, MaxBatch)

NoSaved == [called |-> FALSE, updates |-> <<>>, new_updates |-> <<>>,
            before |-> <<>>, again |-> FALSE]

SaveUpdates(updates) ==
  \E st \in {save_updates([db |-> db, new_updates |-> <<>>], updates)} :
    /\ db' = st.db
    /\ su' = [called |-> TRUE, updates |-> updates, new_updates |-> st.new_updates,
                 before |-> db, again |-> su.called /\ su.updates = updates]
    /\ UNCHANGED <<recon_vars, queue_vars, cls_vars, clock, snap_vars, clr, cyc,
                   scraping_log, last_cycle, sch, fp, rc, pl>>

(***************************************************************************)
(* BaseScraper.fetch_page: the loop over range(retries).  Each request is  *)
(* one step; it answers with a response or raises a RequestException.      *)
(***************************************************************************)
MaxRetries == 4

RequestErrors == {"Timeout", "ConnectionError", "HTTPError"}
NoResponse == "None"
FpIdle == [pc |-> "idle", retries |-> 0, attempt |-> 0, errors |-> <<>>,
           slept |-> 0, result |-> NoResponse]
fp_rest == <<recon_vars, queue_vars, cls_vars, clock, snap_vars, clr, cyc,
             scrape_vars, sch, su, rc, pl>>

\* fetch_page(url, retries) is called
FetchPage(retries) ==
  /\ fp.pc = "idle"
  /\ fp' = [fp EXCEPT !.pc = "loop", !.retries = retries]
  /\ UNCHANGED fp_rest

\* session.get and raise_for_status succeed: return response
FetchSucceeds ==
  /\ fp.pc = "loop"
  /\ fp.attempt < fp.retries
  /\ fp' = [fp EXCEPT !.pc = "returned", !.result = "response"]
  /\ UNCHANGED fp_rest

\* RequestException: re-raised on the last attempt, else sleep and go on
FetchFails(e) ==
  /\ fp.pc = "loop"
  /\ fp.attempt < fp.retries
  /\ fp' = IF fp.attempt = fp.retries - 1
           THEN [fp EXCEPT !.pc = "raised", !.errors = Append(@, e), !.result = e]
           ELSE [fp EXCEPT !.errors = Append(@, e), !.attempt = @ + 1,
                           !.slept = @ + 2 ^ fp.attempt]
  /\ UNCHANGED fp_rest

\* range(retries) is exhausted: the function ends without a return statement
FetchFallsThrough ==
  /\ fp.pc = "loop"
  /\ fp.attempt >= fp.retries
  /\ fp' = [fp EXCEPT !.pc = "returned", !.result = NoResponse]
  /\ UNCHANGED fp_rest

(***************************************************************************)
(* One reconciliation with its input kept: the canonical snapshot it found *)
(* and the batch.  A record without the title key reads as '' through      *)
(* update.get('title', '').                                                *)
(***************************************************************************)
UntitledRecords ==
  { [r EXCEPT !.title = ""] :
      r \in {x \in RawRecords : x.content_hash # "" /\ x.scraped_at = 1} }
ReconBatches == SeqsUpTo(RawRecords \cup UntitledRecords, MaxBatch)

\* rows of the updates table as get_recent_updates returns them: there is no
\* exam_type column, the hashes are unique, the newest row comes first
TableRows ==
  { [r EXCEPT !.exam_type = ""] : r \in {x \in RawRecords : x.content_hash # ""} }
RecentUpdates ==
  { rows \in SeqsUpTo(TableRows, MaxBatch) :
      \A i, j \in 1..Len(rows) :
        i < j => /\ rows[i].content_hash # rows[j].content_hash
                 /\ rows[i].scraped_at >= rows[j].scraped_at }

\* canonical snapshots as earlier cycles and the initial setup leave them:
\* every list newest first, no hash twice, at most MaxCanon records
MaxCanon == 2
FiledItems ==
  { [item |-> format_update(r), category |-> c] :
      r \in {x \in RawRecords \cup UntitledRecords : x.content_hash # ""},
      c \in Categories }
CanonSets ==
  { S \in SUBSET {f \in FiledItems :
                    \E o \in Origins : /\ o.source = f.item.source
                                        /\ f.category = CategoryOf[o]} :
      /\ Cardinality(S) <= MaxCanon
      /\ \A f, g \in S : f # g => f.item.content_hash # g.item.content_hash }
ListsOf(S, c) ==
  LET items == {f.item : f \in {g \in S : g.category = c}}
  IN  { l \in SeqsUpTo(items, Cardinality(items)) :
          /\ Len(l) = Cardinality(items)
          /\ \A i, j \in 1..Len(l) :
               i < j => l[i] # l[j] /\ l[i].scraped_at >= l[j].scraped_at }
CanonicalDocs ==
  UNION { { [jee |-> j, gate |-> g, jee_adv |-> a, upsc |-> u,
             total_notification |-> Cardinality(S)] :
              j \in ListsOf(S, "jee"), g \in ListsOf(S, "gate"),
              a \in ListsOf(S, "jee_adv"), u \in ListsOf(S, "upsc") } :
          S \in CanonSets }

NoRecon == [done |-> FALSE, setup |-> FALSE, pre |-> EmptyMainData, batch |-> <<>>,
            result |-> NoResult]
rc_rest == <<recon_vars, queue_vars, cls_vars, clock, snap_vars, clr, cyc,
             scrape_vars, sch, su, fp, pl>>

\* process_new_scraped_data applied to a batch
Reconcile(new_updates) ==
  /\ ~rc.done
  /\ rc' = [done |-> TRUE, setup |-> FALSE, pre |-> get_existing_data,
            batch |-> new_updates, result |-> process_new_scraped_data(new_updates)]
  /\ UNCHANGED rc_rest

\* initial_scrape_and_setup over the rows get_recent_updates returned
initial_data(all_updates) ==
  LET filed(c) == SelectSeq(all_updates, LAMBDA u : category_of(u) = c)
      list(c) == SortDesc([i \in 1..Len(filed(c)) |-> format_update(filed(c)[i])])
  IN  [jee |-> list("jee"), gate |-> list("gate"), jee_adv |-> list("jee_adv"),
       upsc |-> list("upsc"), total_notification |-> Len(all_updates)]

InitialScrapeAndSetup(all_updates) ==
  /\ ~rc.done
  /\ rc' = [done |-> TRUE, setup |-> TRUE, pre |-> get_existing_data,
            batch |-> all_updates,
            result |-> [NoResult EXCEPT !.main_data = initial_data(all_updates)]]
  /\ UNCHANGED rc_rest

\* the data directory holds no canonical snapshot, or one of CanonicalDocs
InitCanon ==
  /\ main_data_file \in {[exists |-> FALSE, data |-> EmptyMainData]}
                          \cup {[exists |-> TRUE, data |-> d] : d \in CanonicalDocs}
  /\ notification_file = [exists |-> FALSE, data |-> EmptyNotificationData]
  /\ last_stats = [new_items |-> 0, updated_items |-> 0, new_notifications |-> 0]
  /\ reingest = NoReingest

(***************************************************************************)
(* Scrape cycles from scrape_all_websites to the enqueue, run by the       *)
(* scheduler's thread and by the thread of a POST /scrape request.  Each   *)
(* access to the database, to a snapshot file or to the queue is one step. *)
(***************************************************************************)
CycleThreads == {"timer", "manual"}
MaxPushed == 3
\* besides the cycle's locals: the hashes the table held when the cycle
\* began (db0), the hashes of the canonical snapshot it read (pre) and the
\* number of items the queue had been given when it began (q0)
PlIdle == [pc |-> "idle", new_updates |-> <<>>, result |-> NoResult,
           db0 |-> {}, pre |-> {}, q0 |-> 0]
\* no cycle of the thread is under way
PlAtRest == {"idle", "done", "raised"}
pl_rest == <<reingest, cls_vars, clock, snap_vars, clr, cyc, scraping_log,
             last_cycle, sch, su, fp, rc>>

\* save_main_data raises and the cycle goes on with the delta
save_main_swallows(c) == [c EXCEPT !.pc = "save_delta"]

\* `raise` of save_main_data: process_next_scrape_cycle is left, the
\* exception is logged by scrape_all_websites
save_main_raises(c) == [c EXCEPT !.pc = "raised"]

\* the loop over the scrapers with save_updates; without new updates the
\* delta file is removed and the cycle returns
PlScrape(t, outcomes) ==
  \E st \in {scrape_loop([db |-> db, all_new_updates |-> <<>>,
                          log |-> <<>>, invoked |-> <<>>], outcomes, 1)} :
    /\ pl[t].pc \in PlAtRest
    /\ db' = st.db
    /\ IF st.all_new_updates = <<>>
       THEN /\ notification_file' = clear_notifications
            /\ pl' = [pl EXCEPT ![t] = PlIdle]
       ELSE /\ pl' = [pl EXCEPT ![t] = [pc |-> "clear", new_updates |-> st.all_new_updates,
                                        result |-> NoResult, db0 |-> stored_hashes(db),
                                        pre |-> {}, q0 |-> Len(hist)]]
            /\ UNCHANGED notification_file
    /\ UNCHANGED <<main_data_file, last_stats, queue_vars, pl_rest>>

\* process_next_scrape_cycle: clear_notifications
PlClear(t) ==
  /\ pl[t].pc = "clear"
  /\ notification_file' = clear_notifications
  /\ pl' = [pl EXCEPT ![t].pc = "reconcile"]
  /\ UNCHANGED <<main_data_file, last_stats, db, queue_vars, pl_rest>>

\* process_new_scraped_data: reads the canonical snapshot
PlReconcile(t) ==
  \E result \in {process_new_scraped_data(pl[t].new_updates)} :
    /\ pl[t].pc = "reconcile"
    /\ last_stats' = result.stats
    /\ pl' = [pl EXCEPT ![t].pc = "save_main", ![t].result = result,
                        ![t].pre = get_existing_hashes(get_existing_data)]
    /\ UNCHANGED <<main_data_file, notification_file, db, queue_vars, pl_rest>>

\* save_main_data writes the canonical snapshot
PlSaveMain(t) ==
  /\ pl[t].pc = "save_main"
  /\ main_data_file' = [exists |-> TRUE, data |-> pl[t].result.main_data]
  /\ pl' = [pl EXCEPT ![t].pc = "save_delta"]
  /\ UNCHANGED <<notification_file, last_stats, db, queue_vars, pl_rest>>

\* save_main_data cannot open or write the file
PlSaveMainRaises(t) ==
  /\ pl[t].pc = "save_main"
  /\ pl' = [pl EXCEPT ![t] = save_main_raises(@)]
  /\ UNCHANGED <<main_data_file, notification_file, last_stats, db, queue_vars, pl_rest>>

\* the test of total_new_notifications and save_notifications
PlSaveDelta(t) ==
  /\ pl[t].pc = "save_delta"
  /\ IF pl[t].result.notification_data.total_new_notifications > 0
     THEN /\ notification_file' = [exists |-> TRUE, data |-> pl[t].result.notification_data]
          /\ pl' = [pl EXCEPT ![t].pc = "enqueue"]
     ELSE /\ pl' = [pl EXCEPT ![t].pc = "done"]
          /\ UNCHANGED notification_file
  /\ UNCHANGED <<main_data_file, last_stats, db, queue_vars, pl_rest>>

\* _send_webhook_for_new_notifications; the cycle returns
PlEnqueue(t) ==
  \E q \in {add_batch_notifications(
             [mem |-> mem, queue |-> queue, hist |-> hist, ids |-> ids,
              enqueued |-> enqueued, file |-> queue_file],
             collect_notifications(pl[t].result.notification_data))} :
    /\ pl[t].pc = "enqueue"
    /\ Len(q.hist) <= MaxPushed
    /\ mem' = q.mem
    /\ queue' = q.queue
    /\ hist' = q.hist
    /\ ids' = q.ids
    /\ enqueued' = q.enqueued
    /\ queue_file' = q.file
    /\ pl' = [pl EXCEPT ![t].pc = "done"]
    /\ UNCHANGED <<main_data_file, notification_file, last_stats, db, processing, boot,
                   load_idx, w_pc, w_cur, c_pc, c_cur, sv, reached, pl_rest>>

\* the process stops while a cycle is under way and is started again: the
\* threads are gone, the database and the files stay
PlStop ==
  /\ \E t \in CycleThreads : pl[t].pc \notin PlAtRest
  /\ pl' = [t \in CycleThreads |-> PlIdle]
  /\ UNCHANGED <<main_data_file, notification_file, last_stats, db, queue_vars, pl_rest>>

\* the snapshot items of the records the scrapers of the model return
PlItems ==
  { format_update(r) :
      r \in UNION { {u[i] : i \in 1..Len(u)} :
                      u \in UNION {ScrapeResults(ScraperNames[n]) : n \in 1..Len(ScraperNames)} } }
PlDocs ==
  { d \in CanonicalDocs :
      \A c \in Categories : \A i \in 1..Len(d[c]) : d[c][i] \in PlItems }
\* the rows of the updates table: any of the hashes, each once
PlTables ==
  { table \in SeqsUpTo(ContentHashes \ {""}, Cardinality(ContentHashes)) :
      \A i, j \in 1..Len(table) : i # j => table[i] # table[j] }

(***************************************************************************)
(* Specifications                                                          *)
(***************************************************************************)
InitNoClassify ==
  /\ cls_update = [source |-> "", exam_type |-> ""]
  /\ cls_result = "none"

InitClassify ==
  /\ cls_update \in [source : ClassifySources, exam_type : ClassifyExamTypes]
  /\ cls_result = "none"

\* the parts of the system that a specification leaves at rest
InitExt ==
  /\ clock = 0
  /\ disk = [f \in SnapshotFiles |-> MissingFile(f)]
  /\ io = IoIdle
  /\ rd = NoRead
  /\ backups = {}
  /\ clr = ClrIdle
  /\ cyc = CycIdle
  /\ db = <<>>
  /\ su = NoSaved
  /\ fp = FpIdle
  /\ rc = NoRecon
  /\ pl = [t \in CycleThreads |-> PlIdle]
  /\ scraping_log = <<>>
  /\ last_cycle = NoCycle
  /\ sch = SchInit

InitRecon ==
  /\ main_data_file = [exists |-> FALSE, data |-> EmptyMainData]
  /\ notification_file = [exists |-> FALSE, data |-> EmptyNotificationData]
  /\ last_stats = [new_items |-> 0, updated_items |-> 0, new_notifications |-> 0]
  /\ reingest = NoReingest

\* the queue manager constructed when no document exists
InitQueue ==
  /\ mem = <<>>
  /\ queue = <<>>
  /\ queue_file = [exists |-> FALSE, queue |-> <<>>]
  /\ processing = TRUE
  /\ boot = "up"
  /\ load_idx = 1
  /\ w_pc = "get"
  /\ w_cur = 0
  /\ c_pc = "idle"
  /\ c_cur = 0
  /\ sv = [t \in Threads |-> NoSave]
  /\ hist = <<>>
  /\ ids = <<>>
  /\ enqueued = {}
  /\ reached = {}

\* persisted documents a starting process may find: item i has uid i
AttemptsOf(value) ==
  CASE value = "pending" -> {0}
    [] value = "retry"   -> 1..(DefaultMaxAttempts - 1)
    [] value = "failed"  -> {DefaultMaxAttempts}
    [] OTHER             -> 1..DefaultMaxAttempts

DocItems(uid) ==
  { [uid |-> uid, notification_data |-> d, status |-> v, attempts |-> a,
     max_attempts |-> DefaultMaxAttempts] :
       d \in Payloads, v \in StatusValues, a \in 0..DefaultMaxAttempts }

Documents ==
  UNION { { doc \in [1..n -> UNION {DocItems(u) : u \in 1..n}] :
              \A i \in 1..n : /\ doc[i].uid = i
                              /\ doc[i].attempts \in AttemptsOf(doc[i].status) }
          : n \in 0..MaxDoc }

\* the queue manager being constructed over an existing document
InitLoad ==
  /\ mem = <<>>
  /\ queue = <<>>
  /\ \E doc \in Documents :
       /\ queue_file = [exists |-> TRUE, queue |-> doc]
       /\ hist = [i \in 1..Len(doc) |-> ZeroHist]
  /\ processing = FALSE
  /\ boot = "loading"
  /\ load_idx = 1
  /\ w_pc = "get"
  /\ w_cur = 0
  /\ c_pc = "idle"
  /\ c_cur = 0
  /\ sv = [t \in Threads |-> NoSave]
  /\ ids = [i \in 1..Len(hist) |-> notification_id(AutoScrape, 0)]
  /\ enqueued = {}
  /\ reached = {}

NextRecon ==
  \/ \E b \in Batches : ProcessNextScrapeCycle(b)
  \/ ScrapeNoUpdates

NextReingest ==
  \/ \E b \in Batches : ProcessNextScrapeCycle(b)
  \/ \E b \in Batches : FirstIngest(b)
  \/ Reingest

NextQueue ==
  \/ \E d \in Payloads : AddNotification(d)
  \/ \E t \in Threads : SaveDrain(t)
  \/ \E t \in Threads : SaveRefill(t)
  \/ \E t \in Threads : SaveWrite(t)
  \/ WorkerTake
  \/ \E success \in BOOLEAN : WorkerSend(success)

\* the steps of the worker thread and of the thread inside add_notification
WorkerStep ==
  \/ WorkerTake
  \/ \E success \in BOOLEAN : WorkerSend(success)
  \/ SaveDrain("worker")
  \/ SaveRefill("worker")
  \/ SaveWrite("worker")
CallerStep ==
  \/ SaveDrain("caller")
  \/ SaveRefill("caller")
  \/ SaveWrite("caller")

\* the run of NextQueue cut by a crash at any point, followed by the
\* _load_queue of the restarted process
NextCrash ==
  \/ NextQueue
  \/ Crash
  \/ LoadStep

NextLoad ==
  \/ LoadStep
  \/ StartProcessor
  \/ WorkerTake
  \/ \E success \in BOOLEAN : WorkerSend(success)
  \/ SaveDrain("worker")
  \/ SaveRefill("worker")
  \/ SaveWrite("worker")

NextClassify == Classify

\* enqueue calls of one thread while the clock runs
NextIds ==
  \/ \E d \in Payloads : AddNotification(d)
  \/ SaveDrain("caller")
  \/ SaveRefill("caller")
  \/ SaveWrite("caller")
  \/ Tick

NextClear ==
  \/ NextQueue
  \/ ClearQueue
  \/ ClearDrain
  \/ ClearRemove

NextScrape == \E outcomes \in CycleOutcomes : ScrapeAllWebsites(outcomes)

NextCycle ==
  \/ \E b \in Batches : CycleBegin(b)
  \/ CycleSaveNotifications
  \/ CycleEnqueue

NextSched ==
  \/ Start
  \/ Stop
  \/ Shutdown
  \/ \E k \in 1..Len(sch.threads) : \E job \in sch.jobs : TimerFire(k, job)
  \/ \E k \in 1..Len(sch.threads) : TimerExit(k)
  \/ \E i \in 1..Len(sch.runs) : \E raised \in BOOLEAN : RunNoUpdates(i, raised)
  \/ \E i \in 1..Len(sch.runs) : \E w \in CycleWrites : RunSaveMain(i, w)
  \/ \E i \in 1..Len(sch.runs) : RunSaveDelta(i)
  \/ \E i \in 1..Len(sch.runs) : RunEnd(i)
  \/ sch.alive /\ SnapOpen
  \/ sch.alive /\ SnapWrite
  \/ sch.alive /\ clock < SchedHorizon /\ Tick

\* server mode: the scheduler is started and the web interface serves
\* POST /scrape
NextTrigger ==
  \/ Start
  \/ TriggerScrape
  \/ \E i \in 1..Len(sch.runs) : \E raised \in BOOLEAN : RunNoUpdates(i, raised)
  \/ \E i \in 1..Len(sch.runs) : \E w \in CycleWrites : RunSaveMain(i, w)
  \/ \E i \in 1..Len(sch.runs) : RunSaveDelta(i)
  \/ \E i \in 1..Len(sch.runs) : RunEnd(i)
  \/ SnapOpen
  \/ SnapWrite

NextTasks ==
  \/ Start
  \/ \E k \in 1..Len(sch.threads) : \E job \in sch.jobs : TaskFire(k, job)
  \/ \E i \in 1..Len(sch.runs) : TaskRaises(i)
  \/ \E i \in 1..Len(sch.runs) : TaskReturns(i)
  \/ \E i \in 1..Len(sch.runs) :
       sch.runs[i].job.kind \notin Maintenance /\ RunNoUpdates(i, FALSE)
  \/ clock < TaskHorizon /\ Tick

NextPipeline ==
  \/ \E t \in CycleThreads : \E outcomes \in CycleOutcomes : PlScrape(t, outcomes)
  \/ \E t \in CycleThreads : PlClear(t)
  \/ \E t \in CycleThreads : PlReconcile(t)
  \/ \E t \in CycleThreads : PlSaveMain(t)
  \/ \E t \in CycleThreads : PlSaveMainRaises(t)
  \/ \E t \in CycleThreads : PlSaveDelta(t)
  \/ \E t \in CycleThreads : PlEnqueue(t)
  \/ PlStop

\* one thread runs cycles, nothing else touches the data directory
NextOneCycle ==
  \/ \E outcomes \in CycleOutcomes : PlScrape("timer", outcomes)
  \/ PlClear("timer")
  \/ PlReconcile("timer")
  \/ PlSaveMain("timer")
  \/ PlSaveMainRaises("timer")
  \/ PlSaveDelta("timer")
  \/ PlEnqueue("timer")

NextStorage == \E updates \in StorageBatches : SaveUpdates(updates)

NextFetch ==
  \/ \E retries \in 0..MaxRetries : FetchPage(retries)
  \/ FetchSucceeds
  \/ \E e \in RequestErrors : FetchFails(e)
  \/ FetchFallsThrough

NextReconcile ==
  \/ \E b \in ReconBatches : Reconcile(b)
  \/ \E rows \in RecentUpdates : InitialScrapeAndSetup(rows)

NextSnapshot ==
  \/ \E data \in MainDocs : SaveMainData(data)
  \/ \E notification_data \in NotificationDocs : SaveNotifications(notification_data)
  \/ SnapOpen
  \/ SnapWrite
  \/ RemoveNotificationFile
  \/ \E f \in SnapshotFiles : ReadSnapshot(f)

NextBackups ==
  \/ \E data \in BackupDocs : SaveMainData(data)
  \/ SnapOpen
  \/ SnapWrite
  \/ \E keep_count \in KeepCounts : CleanupOldBackups(keep_count)
  \/ Tick

InitSpecRecon == InitRecon /\ InitQueue /\ InitNoClassify /\ InitExt
SpecRecon == InitSpecRecon /\ [][NextRecon]_vars

InitSpecReingest == InitRecon /\ InitQueue /\ InitNoClassify /\ InitExt
SpecReingest == InitSpecReingest /\ [][NextReingest]_vars

InitSpecQueue == InitRecon /\ InitQueue /\ InitNoClassify /\ InitExt
SpecQueue == InitSpecQueue /\ [][NextQueue]_vars

InitSpecCrash == InitRecon /\ InitQueue /\ InitNoClassify /\ InitExt
SpecCrash == InitSpecCrash /\ [][NextCrash]_vars

InitSpecLoad == InitRecon /\ InitLoad /\ InitNoClassify /\ InitExt
SpecLoad == InitSpecLoad /\ [][NextLoad]_vars

InitSpecIds == InitRecon /\ InitQueue /\ InitNoClassify /\ InitExt
SpecIds == InitSpecIds /\ [][NextIds]_vars

InitSpecClear == InitRecon /\ InitQueue /\ InitNoClassify /\ InitExt
SpecClear == InitSpecClear /\ [][NextClear]_vars

InitSpecScrape == InitRecon /\ InitQueue /\ InitNoClassify /\ InitExt
SpecScrape == InitSpecScrape /\ [][NextScrape]_vars

InitSpecCycle == InitRecon /\ InitQueue /\ InitNoClassify /\ InitExt
SpecCycle == InitSpecCycle /\ [][NextCycle]_vars

InitSpecSched == InitRecon /\ InitQueue /\ InitNoClassify /\ InitExt
SpecSched == InitSpecSched /\ [][NextSched]_vars

InitSpecStorage == InitRecon /\ InitQueue /\ InitNoClassify /\ InitExt
SpecStorage == InitSpecStorage /\ [][NextStorage]_vars

InitSpecFetch == InitRecon /\ InitQueue /\ InitNoClassify /\ InitExt
SpecFetch == InitSpecFetch /\ [][NextFetch]_vars

InitSpecReconcile == InitCanon /\ InitQueue /\ InitNoClassify /\ InitExt
SpecReconcile == InitSpecReconcile /\ [][NextReconcile]_vars

InitSpecTasks == InitRecon /\ InitQueue /\ InitNoClassify /\ InitExt
SpecTasks == InitSpecTasks /\ [][NextTasks]_vars

\* a data directory as earlier runs can have left it: any table, any
\* canonical snapshot, no cycle under way
InitSpecPipeline ==
  /\ InitCanon /\ InitQueue /\ InitNoClassify
  /\ main_data_file.exists => main_data_file.data \in PlDocs
  /\ clock = 0
  /\ disk = [f \in SnapshotFiles |-> MissingFile(f)]
  /\ io = IoIdle
  /\ rd = NoRead
  /\ backups = {}
  /\ clr = ClrIdle
  /\ cyc = CycIdle
  /\ db \in PlTables
  /\ su = NoSaved
  /\ fp = FpIdle
  /\ rc = NoRecon
  /\ pl = [t \in CycleThreads |-> PlIdle]
  /\ scraping_log = <<>>
  /\ last_cycle = NoCycle
  /\ sch = SchInit
SpecPipeline == InitSpecPipeline /\ [][NextPipeline]_vars

InitSpecOneCycle == InitSpecPipeline
SpecOneCycle == InitSpecOneCycle /\ [][NextOneCycle]_vars

\* a fresh data directory; the timer keeps firing, every site keeps showing
\* its notices, and a thread inside a cycle takes its next step
InitSpecRestart == InitRecon /\ InitQueue /\ InitNoClassify /\ InitExt
AllListed ==
  <<[raised |-> FALSE, updates |-> <<RecordOf(ScraperNames[1], "h1", 1),
                                     RecordOf(ScraperNames[1], "h2", 2)>>],
    [raised |-> FALSE, updates |-> <<RecordOf(ScraperNames[2], "h1", 1)>>]>>
\* the next step of thread t inside its cycle (its pc enables one of them)
CycleStep(t) ==
  \/ PlClear(t)
  \/ PlReconcile(t)
  \/ PlSaveMain(t)
  \/ PlSaveMainRaises(t)
  \/ PlSaveDelta(t)
  \/ PlEnqueue(t)

SpecRestart ==
  /\ InitSpecRestart
  /\ [][NextPipeline]_vars
  /\ WF_vars(PlScrape("timer", AllListed))
  /\ \A t \in CycleThreads : WF_vars(CycleStep(t))

\* the queue with a worker thread that keeps running and callers that
\* finish their add_notification; no crash, no clear()
InitSpecDelivery == InitSpecQueue
SpecDelivery ==
  /\ InitSpecDelivery
  /\ [][NextQueue]_vars
  /\ WF_vars(WorkerStep)
  /\ WF_vars(CallerStep)

(***************************************************************************)
(* WebhookService: the exam name of the payload                            *)
(***************************************************************************)
\* dict.get(key, default)
Get(d, key, default) == IF key \in DOMAIN d THEN d[key] ELSE default

RECURSIVE Upper(_)
Upper(s) ==
  IF Len(s) = 0 THEN ""
  ELSE LET c == SubSeq(s, 1, 1)
           up == CHOOSE x \in {"A", "B", "C", "D", "E", "F", "G", "H", "I", "J", "K", "L", "M",
                               "N", "O", "P", "Q", "R", "S", "T", "U", "V", "W", "X", "Y", "Z",
                               c} :
                   IF \E y \in {"A", "B", "C", "D", "E", "F", "G", "H", "I", "J", "K", "L", "M",
                                 "N", "O", "P", "Q", "R", "S", "T", "U", "V", "W", "X", "Y", "Z"} :
                        LowerChar(y) = c /\ y # c
                   THEN LowerChar(x) = c /\ x # c
                   ELSE x = c
       IN  up \o Upper(SubSeq(s, 2, Len(s)))

\* WebhookService._determine_exam_type
determine_exam_type(notification_data) ==
  LET exam_type == Lower(Get(notification_data, "exam_type", ""))
      source    == Lower(Get(notification_data, "source", ""))
      title     == Lower(Get(notification_data, "title", ""))
  IN  IF exam_type # "" THEN exam_type
      ELSE IF \/ Contains(source, "jee advanced") \/ Contains(source, "jeeadv")
              \/ Contains(title, "jee advanced") \/ Contains(title, "jeeadv")
      THEN "jee_adv"
      ELSE IF Contains(source, "gate") \/ Contains(title, "gate") THEN "gate"
      ELSE IF Contains(source, "upsc") \/ Contains(title, "upsc") THEN "upsc"
      ELSE IF Contains(source, "neet") \/ Contains(title, "neet") THEN "neet"
      ELSE IF Contains(source, "cat") \/ Contains(title, "cat") THEN "cat"
      ELSE IF Contains(source, "jee") \/ Contains(title, "jee") \/ Contains(source, "nta")
      THEN "jee"
      ELSE IF \/ Contains(source, "demo") \/ Contains(title, "demo")
              \/ Contains(source, "bot testing")
      THEN "demo"
      ELSE "jee"

\* exam_name_mapping of _format_payload
exam_name_mapping ==
  [jee |-> "JEE Main", jee_adv |-> "JEE Advanced", gate |-> "GATE",
   upsc |-> "UPSC Civil Services", cat |-> "CAT", neet |-> "NEET",
   demo |-> "Demo Notification"]

\* _format_payload: the title, the source and metadata.examName
format_payload(notification_data) ==
  LET exam_type == determine_exam_type(notification_data)
  IN  [title |-> Get(notification_data, "title", "Exam Update"),
       metadata |-> [examName |-> Get(exam_name_mapping, Lower(exam_type), Upper(exam_type)),
                     source |-> Get(notification_data, "source", "exam_scraper")]]

PayloadTitles ==
  {"Notice", "JEE Main admit card", "Application form released",
   "GATE 2025 result", "UPSC calendar", "JEE Advanced syllabus"}

\* the formatted form of a raw record is what the delta holds and the queue
\* passes on; the webhook service builds the payload from it
FormatPayload ==
  /\ cls_result = "none"
  /\ cls_result' = format_payload(format_update(cls_update)).metadata.examName
  /\ UNCHANGED <<cls_update, recon_vars, queue_vars, ext_vars>>

InitPayload ==
  /\ cls_update \in [source : ClassifySources, exam_type : ClassifyExamTypes,
                      title : PayloadTitles, scraped_at : {1}, content_hash : {"h1"}]
  /\ cls_result = "none"

NextPayload == FormatPayload

InitSpecPayload == InitRecon /\ InitQueue /\ InitPayload /\ InitExt
SpecPayload == InitSpecPayload /\ [][NextPayload]_vars

InitSpecTrigger == InitRecon /\ InitQueue /\ InitNoClassify /\ InitExt
SpecTrigger == InitSpecTrigger /\ [][NextTrigger]_vars

InitSpecSnapshot == InitRecon /\ InitQueue /\ InitNoClassify /\ InitExt
SpecSnapshot == InitSpecSnapshot /\ [][NextSnapshot]_vars

InitSpecBackups == InitRecon /\ InitQueue /\ InitNoClassify /\ InitExt
SpecBackups == InitSpecBackups /\ [][NextBackups]_vars

InitSpecClassify == InitRecon /\ InitQueue /\ InitClassify /\ InitExt
SpecClassify == InitSpecClassify /\ [][NextClassify]_vars


(***************************************************************************)
(* Properties                                                              *)
(***************************************************************************)
CanonicalData == main_data_file.data

\* the positions <<category, index>> of the canonical snapshot
Positions(data) ==
  UNION { {<<c, i>> : i \in 1..Len(data[c])} : c \in Categories }

\* C1: after any sequence of reconciliation cycles no content_hash occurs
\* twice in the canonical snapshot, neither inside one category list nor in
\* two different category lists.
C1_DedupInvariant ==
  \A p, q \in Positions(CanonicalData) :
    p # q => CanonicalData[p[1]][p[2]].content_hash # CanonicalData[q[1]][q[2]].content_hash

\* a cycle whose batch held the same new hash twice: the only canonical
\* record was added and updated by that one cycle
C1_Witness ==
  /\ main_data_file.exists
  /\ CanonicalData.total_notification = 1
  /\ last_stats.new_items = 1
  /\ last_stats.updated_items = 1

\* C2: an item whose delivery fails on every attempt is retried exactly
\* max_attempts - 1 times, becomes FAILED on attempt number max_attempts, and
\* the worker never attempts it again afterwards.
C2_FailedState ==
  \A u \in DOMAIN mem :
    /\ hist[u].retries <= mem[u].max_attempts - 1
    /\ mem[u].status = "FAILED" =>
         /\ hist[u].retries = mem[u].max_attempts - 1
         /\ hist[u].sends = mem[u].max_attempts
         /\ mem[u].attempts = mem[u].max_attempts
         /\ \A i \in 1..Len(queue) : queue[i] # u

C2_FailedStep ==
  \A u \in DOMAIN mem :
    mem[u].status = "FAILED" =>
      /\ u \in DOMAIN mem'
      /\ mem'[u] = mem[u]
      /\ hist'[u] = hist[u]

StatusChangesWithin(allowed) ==
  \A u \in (DOMAIN mem) \cap (DOMAIN mem') :
    /\ mem'[u].status # mem[u].status => <<mem[u].status, mem'[u].status>> \in allowed
    /\ (mem'[u].status = "FAILED" /\ mem[u].status # "FAILED") =>
          mem'[u].attempts = mem'[u].max_attempts

InQueue(u) == \E i \in 1..Len(queue) : queue[i] = u
Reloaded == boot = "loading" /\ LoadDone

\* C4: when the process crashes at any point and the queue is restarted from
\* the persisted document, every item that had been enqueued and had not
\* reached sent or failed is in the live queue again.
C4_Claim ==
  Reloaded => \A u \in enqueued \ reached : InQueue(u)

\* C5: an item that exhausted its attempts is retained in the persisted
\* document with status failed and is counted under 'failed' by the status
\* query.
C5_Claim ==
  \A u \in DOMAIN mem :
    (mem[u].status = "FAILED" /\ w_cur # u) =>
      /\ queue_file.exists
      /\ \E i \in 1..Len(queue_file.queue) :
           queue_file.queue[i].uid = u /\ queue_file.queue[i].status = "failed"
      /\ get_queue_status["failed"] >= 1

\* C6: on startup the queue reloads from the persisted document exactly the
\* items whose status is pending or retry, in document order and with their
\* attempt counts preserved, and no item whose status is sent or failed.
C6_ReloadExact ==
  Reloaded =>
    LET doc == queue_file.queue
        wanted == {i \in 1..Len(doc) : doc[i].status \in {"pending", "retry"}}
    IN  /\ Len(queue) = Cardinality(wanted)
        /\ \A i \in wanted : InQueue(doc[i].uid)
        /\ \A i, j \in wanted :
             i < j => \E a, b \in 1..Len(queue) :
                        a < b /\ queue[a] = doc[i].uid /\ queue[b] = doc[j].uid
        /\ \A i \in 1..Len(doc) :
             /\ InQueue(doc[i].uid) =>
                  /\ mem[doc[i].uid].attempts = doc[i].attempts
                  /\ StatusValue(mem[doc[i].uid].status) = doc[i].status
             /\ doc[i].status \in {"sent", "failed"} => ~InQueue(doc[i].uid)

\* the document of one pending and one sent item, reloaded
C6_Witness ==
  /\ Reloaded
  /\ Len(queue_file.queue) = 2
  /\ queue_file.queue[1].status = "sent"
  /\ queue_file.queue[2].status = "pending"
  /\ queue = <<2>>

\* C7: an item found with status sending in the persisted document at
\* startup is re-queued as pending.
C7_Claim ==
  Reloaded =>
    \A i \in 1..Len(queue_file.queue) :
      queue_file.queue[i].status = "sending" =>
        /\ InQueue(queue_file.queue[i].uid)
        /\ mem[queue_file.queue[i].uid].status = "PENDING"

ReingestResult ==
  /\ reingest.stats1.new_items = reingest.n
  /\ reingest.stats1.updated_items = 0
  /\ last_stats.new_items = 0
  /\ last_stats.updated_items = reingest.n
  /\ CanonicalData.total_notification = reingest.total1

\* C8 as claimed: feeding the same batch of N raw records twice in a row
\* yields new_items = N, updated_items = 0, then new_items = 0,
\* updated_items = N, and the same total_notification after both runs.
C8_Original == reingest.phase = "second" => ReingestResult

\* C8 amended: the same, for a batch whose content hashes are non-empty,
\* pairwise distinct and not in the canonical snapshot before the first run.
C8_Amended == (reingest.phase = "second" /\ reingest.fresh) => ReingestResult

C8_Witness ==
  /\ reingest.phase = "second"
  /\ reingest.fresh
  /\ reingest.n = 2
  /\ CanonicalData.total_notification = 2

CategoryPriority == <<"jee_adv", "gate", "upsc", "jee">>
CategoryKeywords ==
  [jee_adv |-> {"jee advanced", "jeeadv"}, gate |-> {"gate"},
   upsc |-> {"upsc"}, jee |-> {"jee main", "jee"}]

KeywordMatch(c, update) ==
  \E k \in CategoryKeywords[c] :
    Contains(Lower(update.source), k) \/ Contains(Lower(update.exam_type), k)

\* C10: classify returns the first category, in the order jee_adv, gate,
\* upsc, jee, one of whose keywords occurs case-insensitively in source or
\* exam_type, and jee when none matches; a record whose source or exam_type
\* contains 'jee advanced' is classified jee_adv.
C10_ClassifierPriority ==
  cls_result # "none" =>
    /\ \A i \in 1..Len(CategoryPriority) :
         ( /\ KeywordMatch(CategoryPriority[i], cls_update)
           /\ \A j \in 1..(i - 1) : ~KeywordMatch(CategoryPriority[j], cls_update) )
         => cls_result = CategoryPriority[i]
    /\ (\A i \in 1..Len(CategoryPriority) : ~KeywordMatch(CategoryPriority[i], cls_update))
         => cls_result = "jee"
    /\ (Contains(Lower(cls_update.source), "jee advanced")
          \/ Contains(Lower(cls_update.exam_type), "jee advanced"))
         => cls_result = "jee_adv"

C10_Witness ==
  /\ cls_update.source = "JEE Advanced Board"
  /\ cls_update.exam_type = "jee"
  /\ cls_result = "jee_adv"

(***************************************************************************)
(* Snapshot files: atomicity of the writes, the loaders, the backups       *)
(***************************************************************************)
\* C11: a reader that runs while a snapshot is being saved never sees an
\* empty, truncated or half-written document: what it finds in the file is
\* always one complete document
C11_Claim == rd.done /\ rd.seen.exists => WellFormed(rd.seen.text)

IsEmptyDefault(data, f) ==
  /\ data.jee = <<>> /\ data.gate = <<>> /\ data.jee_adv = <<>> /\ data.upsc = <<>>
  /\ data.last_updated = None
  /\ IF f = "main"
     THEN data.total_notification = 0 /\ data.last_scrape = None
     ELSE data.total_new_notifications = 0 /\ data.scrape_timestamp = None

Stored(file, f) == file.exists /\ file.text = json_dump(file.of, f)

\* C17: loading the canonical or the delta snapshot returns the stored
\* document when the file holds one complete document, and the empty default
\* structure (four empty lists, count 0, null timestamps) when the file is
\* missing or cannot be parsed
C17_LoadNeverFails ==
  rd.done =>
    IF Stored(rd.seen, rd.f) THEN rd.result = rd.seen.of
    ELSE rd.result = DefaultOf(rd.f) /\ IsEmptyDefault(rd.result, rd.f)

\* a load that met a file cut short after its first item
C17_Witness ==
  /\ rd.done /\ rd.seen.exists /\ ~WellFormed(rd.seen.text)
  /\ Len(rd.seen.text) >= 2
  /\ IsEmptyDefault(rd.result, rd.f)

\* a load of a complete document that has an item
C17_WitnessStored ==
  rd.done /\ Stored(rd.seen, rd.f) /\ rd.result.gate # <<>>

C18_Bounded == Cardinality(backups) <= io.keep

\* the files a step removes are not newer than the files it keeps
C18_Step ==
  LET copied == /\ io.pc = "idle" /\ io'.pc = "open" /\ io'.f = "main"
                /\ disk["main"].exists /\ Len(disk["main"].text) > 0
      pool == IF copied THEN copy2_backup(backups, clock) ELSE backups
  IN  \A r \in pool \ backups', k \in backups' : k.mtime >= r.mtime

C12_Claim == \A i, j \in 1..Len(ids) : i # j => ids[i] # ids[j]

(***************************************************************************)
(* clear_queue                                                             *)
(***************************************************************************)
\* C13: once clear_queue has returned, no item that existed at its call is in the
\* live queue or in the persisted document, and none of them starts another
\* attempt, also when the worker held an item while clear_queue ran
C13_Claim ==
  clr.done =>
    \A u \in clr.before :
      /\ \A i \in 1..Len(queue) : queue[i] # u
      /\ \A i \in 1..Len(queue_file.queue) : queue_file.queue[i].uid # u
      /\ mem[u].attempts = clr.mem[u].attempts

(***************************************************************************)
(* The scrape cycle                                                        *)
(***************************************************************************)
ReturnedBy(i) ==
  IF last_cycle.outcomes[i].raised THEN <<>> ELSE last_cycle.outcomes[i].updates

\* C14: the batch handed to the Reconciler consists of every record that
\* the scrapers which did not fail returned in the cycle, in one batch
C14_Claim ==
  last_cycle.ran => last_cycle.batch = ReturnedBy(1) \o ReturnedBy(2)

CycleRows == SubSeq(scraping_log, last_cycle.log_before + 1, Len(scraping_log))

Count(seq, x) == Cardinality({i \in 1..Len(seq) : seq[i] = x})
DeltaLists(d) == <<d.jee, d.gate, d.jee_adv, d.upsc>>
CountInDelta(d, x) ==
  Count(d.jee, x) + Count(d.gate, x) + Count(d.jee_adv, x) + Count(d.upsc, x)
DeltaRecords(d) ==
  UNION { {DeltaLists(d)[c][i] : i \in 1..Len(DeltaLists(d)[c])} : c \in 1..4 }

\* the payloads of the items a step adds to the heap
NewPayloads == [i \in 1..(Len(hist') - Len(hist)) |-> mem'[Len(hist) + i].notification_data]

C16_Step ==
  LET delta == cyc.result.notification_data
  IN  /\ enqueued' # enqueued =>
           /\ cyc.pc = "enqueue"
           /\ main_data_file = [exists |-> TRUE, data |-> cyc.result.main_data]
           /\ notification_file = [exists |-> TRUE, data |-> delta]
      /\ cyc.pc = "saved_main" /\ delta.total_new_notifications > 0 =>
           cyc'.pc = "enqueue"
      /\ cyc.pc = "saved_main" /\ delta.total_new_notifications = 0 =>
           cyc'.pc = "idle" /\ enqueued' = enqueued
      /\ cyc.pc = "enqueue" =>
           /\ cyc'.pc = "idle"
           /\ Len(NewPayloads) = delta.total_new_notifications
           /\ \A x \in DeltaRecords(delta) :
                Count(NewPayloads, x) = CountInDelta(delta, x)
           /\ enqueued' = enqueued \cup (Len(hist) + 1)..Len(hist')
           /\ \A u \in (Len(hist) + 1)..Len(hist') :
                \E i \in 1..Len(queue') : queue'[i] = u

\* C16: in a cycle whose delta is non-empty every delta record is enqueued
\* exactly once, after both snapshots are persisted; in a cycle whose delta
\* is empty nothing is enqueued
C16_EnqueueOnce == [][C16_Step]_vars

\* a cycle has enqueued the records of a delta with two lists in use
C16_Witness ==
  /\ cyc.pc = "idle"
  /\ notification_file.exists
  /\ notification_file.data.gate # <<>> /\ notification_file.data.jee_adv # <<>>
  /\ Cardinality(enqueued) = notification_file.data.total_new_notifications
  /\ Len(queue) = 2

(***************************************************************************)
(* The Scheduler                                                           *)
(***************************************************************************)
C19_Step ==
  sch'.calls = sch.calls + 1 =>
    IF sch.is_running
    THEN /\ sch'.runs = sch.runs
         /\ sch'.jobs = sch.jobs
         /\ sch'.threads = sch.threads
    ELSE /\ Len(sch'.runs) = Len(sch.runs) + 1
         /\ sch'.runs[Len(sch'.runs)] = NewRun(0, NoJob)
         /\ clock' = clock
         /\ \E j \in sch'.jobs : j.kind = "interval" /\ j.next_run > clock'
         /\ Cardinality(sch'.jobs) = Cardinality(sch.jobs) + Cardinality(JobKinds)

\* C19: start() begins one cycle at once, before the interval has elapsed;
\* start() while the Scheduler runs begins no cycle and registers no job, so
\* that each of the three jobs is registered at most once
C19_StartOnce ==
  /\ [](\A j1, j2 \in sch.jobs : j1.kind = j2.kind => j1 = j2)
  /\ [][C19_Step]_vars

\* a second start() was ignored while the cycle of the first was in flight
C19_Witness ==
  /\ sch.ignored = 1
  /\ sch.is_running
  /\ Len(sch.runs) = 1 /\ sch.runs[1].pc = "save_main"
  /\ Cardinality(sch.jobs) = 3

\* C20: when the process has exited after a stop, no cycle was cut short
\* inside a snapshot write: every snapshot file holds a whole document
C20_Claim ==
  ~sch.alive => \A f \in SnapshotFiles : disk[f].exists => WellFormed(disk[f].text)

\* the cycles that are inside process_next_scrape_cycle
InCycle == {i \in 1..Len(sch.runs) : sch.runs[i].pc \in {"save_main", "save_delta"}}

\* C29: at most one cycle is inside process_next_scrape_cycle, reading and
\* writing the snapshot documents, at any time
C29_Claim == Cardinality(InCycle) <= 1

\* C30: while the worker runs no other thread is inside _save_queue
\* (draining and refilling the live queue, writing the queue document), and
\* two runs of _save_queue never overlap
C30_Claim ==
  /\ processing => sv["caller"].pc = "idle"
  /\ sv["caller"].pc = "idle" \/ sv["worker"].pc = "idle"

Failed == {i \in 1..Len(sch.runs) : sch.runs[i].pc = "failed"}

\* C31: when a scrape cycle, the daily cleanup or the weekly optimization
\* has raised, the scheduler is still running, no _run_scheduler thread has
\* ended, the thread that ran the job is back in its loop (or in a later
\* job), and each of the three jobs is still registered
C31_Contained ==
  Failed # {} =>
    /\ sch.is_running
    /\ \A k \in 1..Len(sch.threads) : sch.threads[k] \in {"loop", "job"}
    /\ \A kind \in JobKinds : \E job \in sch.jobs : job.kind = kind

\* the daily cleanup raised and a later timer-driven scrape cycle runs
C31_Witness ==
  /\ Len(sch.runs) = 3
  /\ sch.runs[2].pc = "failed" /\ sch.runs[2].job.kind = "daily"
  /\ sch.runs[3].pc = "scraping" /\ sch.runs[3].job.kind = "interval"

\* a timer-driven scrape cycle raised and the next one runs
C31_WitnessCycle ==
  /\ Len(sch.runs) = 3
  /\ sch.runs[2].pc = "failed" /\ sch.runs[2].job.kind = "interval"
  /\ sch.runs[3].pc = "scraping" /\ sch.runs[3].job.kind = "interval"

\* the worker has taken item u and has not yet called the webhook for it
InFlight(u) == w_cur = u /\ w_pc = "send"

\* holds across crash and reload as well
AttemptsInRange ==
  \A u \in DOMAIN mem : 0 <= mem[u].attempts /\ mem[u].attempts <= mem[u].max_attempts

C32_State ==
  \A u \in DOMAIN mem :
    /\ AttemptsInRange
    /\ hist[u].sends <= mem[u].max_attempts
    /\ mem[u].attempts = hist[u].sends + (IF InFlight(u) THEN 1 ELSE 0)

C32_Step ==
  \A u \in (DOMAIN mem) \cap (DOMAIN mem') :
    /\ mem'[u].attempts \in {mem[u].attempts, mem[u].attempts + 1}
    /\ mem'[u].attempts = mem[u].attempts + 1 <=> (~InFlight(u) /\ InFlight(u)')
    /\ hist'[u].sends \in {hist[u].sends, hist[u].sends + 1}
    /\ hist'[u].sends = hist[u].sends + 1 <=> (InFlight(u) /\ ~InFlight(u)')

\* C32: every queued item has 0 <= attempts <= max_attempts; attempts grows
\* by exactly one each time the worker takes the item for a delivery
\* attempt, each attempt calls the webhook once, and without a crash the
\* webhook is called at most max_attempts times for one item
C32_Attempts == []C32_State /\ [][C32_Step]_vars

\* the last attempt of an item is in flight
C32_Witness ==
  \E u \in DOMAIN mem :
    /\ InFlight(u)
    /\ mem[u].attempts = mem[u].max_attempts
    /\ hist[u].sends = mem[u].max_attempts - 1

(***************************************************************************)
(* The updates table                                                       *)
(***************************************************************************)
\* the positions of the updates that carry a hash the table did not hold,
\* the first position of each such hash
FirstNewPositions(updates, before) ==
  { i \in 1..Len(updates) :
      /\ \A k \in 1..Len(before) : before[k] # updates[i].content_hash
      /\ \A j \in 1..(i - 1) : updates[j].content_hash # updates[i].content_hash }

\* a sequence is the subsequence of updates at the given positions
IsSelection(seq, updates, positions) ==
  /\ Len(seq) = Cardinality(positions)
  /\ \A n \in 1..Len(seq) :
       \E i \in positions :
         /\ seq[n] = updates[i]
         /\ Cardinality({j \in positions : j < i}) = n - 1

\* C21: save_updates inserts and returns exactly the records whose hash is
\* not stored yet, the first occurrence of each; the same batch saved again
\* returns nothing and changes no row; no hash is stored in two rows
C21_SaveUpdates ==
  /\ \A i, j \in 1..Len(db) : i # j => db[i] # db[j]
  /\ su.called =>
       /\ IsSelection(su.new_updates, su.updates,
                      FirstNewPositions(su.updates, su.before))
       /\ db = su.before
                 \o [n \in 1..Len(su.new_updates) |-> su.new_updates[n].content_hash]
       /\ su.again => su.new_updates = <<>> /\ db = su.before

\* a batch that repeats a new hash was saved, then saved again
C21_Witness ==
  /\ su.again
  /\ Len(su.updates) = 2
  /\ su.updates[1].content_hash = su.updates[2].content_hash
  /\ su.updates[1] # su.updates[2]
  /\ Len(db) = 1

(***************************************************************************)
(* fetch_page                                                              *)
(***************************************************************************)
\* the requests made so far: the failed ones and the one that succeeded
Requests == Len(fp.errors) + (IF fp.result = "response" THEN 1 ELSE 0)

\* C22: fetch_page(url, retries) makes at most `retries` requests, returns
\* the first successful response, raises the error of the last attempt when
\* all attempts failed, and never returns without a response
C22_Claim ==
  /\ Requests <= fp.retries
  /\ fp.pc = "raised" =>
       /\ Len(fp.errors) = fp.retries
       /\ fp.result = fp.errors[Len(fp.errors)]
  /\ fp.pc = "returned" => fp.result = "response"

(***************************************************************************)
(* The Reconciler: one call of process_new_scraped_data, rc.pre the        *)
(* canonical snapshot it found, rc.batch its argument, rc.result its       *)
(* return value                                                            *)
(***************************************************************************)
Reconciled == rc.done /\ ~rc.setup
HashesIn(d) == UNION { {d[c][i].content_hash : i \in 1..Len(d[c])} : c \in Categories }
Occurrences(d, h) ==
  Cardinality({p \in Categories \X (1..MaxCanon + MaxBatch) :
                 p[2] <= Len(d[p[1]]) /\ d[p[1]][p[2]].content_hash = h})
HolderCats(d, h) == {c \in Categories : \E i \in 1..Len(d[c]) : d[c][i].content_hash = h}
BatchHashes == {rc.batch[i].content_hash : i \in 1..Len(rc.batch)}
NewHashes == (BatchHashes \ {""}) \ HashesIn(rc.pre)
Lists(d) == [c \in Categories |-> d[c]]

C23_Body(new) ==
  LET delta == rc.result.notification_data
      canon == rc.result.main_data
  IN  /\ HashesIn(delta) = new
      /\ \A h \in new : Occurrences(delta, h) = 1
      /\ \A c \in Categories : \A i \in 1..Len(delta[c]) :
           /\ \E k \in 1..Len(rc.batch) :
                /\ rc.batch[k].content_hash = delta[c][i].content_hash
                /\ rc.batch[k].source = delta[c][i].source
                /\ rc.batch[k].scraped_at = delta[c][i].scraped_at
                /\ rc.batch[k].title = delta[c][i].title
           /\ HolderCats(canon, delta[c][i].content_hash) = {c}
      /\ rc.result.stats.new_items = Cardinality(new)
      /\ HashesIn(delta) \cap HashesIn(rc.pre) = {}

\* C23: after a cycle the delta holds exactly the batch records (of those
\* that carry a content_hash) whose hash was not in the canonical snapshot
\* before the cycle, one entry per hash, filed in the category in which the
\* canonical snapshot holds the hash; new_items is their number; no hash of
\* the earlier canonical snapshot is in the delta
C23_Delta == Reconciled => C23_Body(NewHashes)

\* a batch of one new and one known record
C23_Witness ==
  /\ Reconciled
  /\ Len(rc.batch) = 2
  /\ rc.result.stats.new_items = 1
  /\ rc.result.stats.updated_items = 1
  /\ rc.result.notification_data.total_new_notifications = 1

\* the hash of batch record i was known when the loop reached it
KnownAt(i) ==
  /\ rc.batch[i].content_hash # ""
  /\ \/ rc.batch[i].content_hash \in HashesIn(rc.pre)
     \/ \E j \in 1..(i - 1) : rc.batch[j].content_hash = rc.batch[i].content_hash
\* the list of the record's own category holds its hash
InOwnList(i) ==
  category_of(rc.batch[i]) \in HolderCats(rc.result.main_data, rc.batch[i].content_hash)
FirstNew(c) ==
  {i \in 1..Len(rc.batch) :
     /\ rc.batch[i].content_hash # "" /\ ~KnownAt(i)
     /\ category_of(rc.batch[i]) = c}

C24_Body(K) ==
  LET delta == rc.result.notification_data
      canon == rc.result.main_data
  IN  /\ rc.result.stats.updated_items = Cardinality(K)
      /\ \A i \in K :
           LET h == rc.batch[i].content_hash
               last == CHOOSE j \in K : /\ rc.batch[j].content_hash = h
                                        /\ \A k \in K : rc.batch[k].content_hash = h => k <= j
               list == canon[category_of(rc.batch[i])]
           IN  /\ Occurrences(canon, h) = 1
               /\ \E n \in 1..Len(list) :
                    /\ list[n].content_hash = h
                    /\ list[n].scraped_at = rc.batch[last].scraped_at
                    /\ list[n].source = rc.batch[last].source
                    /\ list[n].title = rc.batch[last].title
               /\ Occurrences(delta, h) = IF h \in HashesIn(rc.pre) THEN 0 ELSE 1
      /\ \A c \in Categories :
           Len(canon[c]) = Len(rc.pre[c]) + Cardinality(FirstNew(c))

\* C24: every batch record whose content_hash is already known
\* replaces the canonical record of that hash in place and counts one in
\* updated_items; nothing is added to the delta and no list grows
C24_Claim == Reconciled => C24_Body({i \in 1..Len(rc.batch) : KnownAt(i)})

\* the same holds of the batch records whose hash is held in the list of
\* the record's own category
KnownInOwnCategory ==
  Reconciled => C24_Body({i \in 1..Len(rc.batch) : KnownAt(i) /\ InOwnList(i)})

Orderings(b) ==
  { [i \in 1..Len(b) |-> b[f[i]]] :
      f \in {g \in [1..Len(b) -> 1..Len(b)] : \A i, j \in 1..Len(b) : i # j => g[i] # g[j]} }
DistinctHashes(b) ==
  \A i, j \in 1..Len(b) :
    b[i].content_hash # "" /\ (i # j => b[i].content_hash # b[j].content_hash)

\* C25: the canonical and the delta snapshot of a cycle are the same, list
\* by list and position by position, for every ordering of the batch (here:
\* of a batch whose records carry pairwise distinct hashes)
C25_Claim ==
  Reconciled /\ DistinctHashes(rc.batch) =>
    \A b \in Orderings(rc.batch) :
      /\ Lists(process_new_scraped_data(b).main_data) = Lists(rc.result.main_data)
      /\ Lists(process_new_scraped_data(b).notification_data)
           = Lists(rc.result.notification_data)

\* C26: after a cycle and after the initial setup total_notification is the
\* sum of the lengths of the four canonical lists and total_new_notifications
\* the sum of the lengths of the four delta lists
C26_Totals ==
  rc.done =>
    /\ rc.result.main_data.total_notification
         = Len(rc.result.main_data.jee) + Len(rc.result.main_data.gate)
           + Len(rc.result.main_data.jee_adv) + Len(rc.result.main_data.upsc)
    /\ rc.result.notification_data.total_new_notifications
         = Len(rc.result.notification_data.jee) + Len(rc.result.notification_data.gate)
           + Len(rc.result.notification_data.jee_adv)
           + Len(rc.result.notification_data.upsc)

\* a cycle that added a jee_adv record to a canonical snapshot of one record
C26_Witness ==
  /\ Reconciled
  /\ rc.pre.total_notification = 1
  /\ rc.result.main_data.total_notification = 2
  /\ Len(rc.result.notification_data.jee_adv) = 1

\* the initial setup filed two rows
C26_WitnessSetup ==
  /\ rc.done /\ rc.setup
  /\ rc.result.main_data.total_notification = 2

WithHash(b) == SelectSeq(b, LAMBDA u : u.content_hash # "")
WithTitle(b) == SelectSeq(b, LAMBDA u : u.title # "")
SameOutcome(r1, r2) ==
  /\ Lists(r1.main_data) = Lists(r2.main_data)
  /\ Lists(r1.notification_data) = Lists(r2.notification_data)
  /\ r1.stats = r2.stats

\* C27: a batch record without content_hash is skipped: the lists of both
\* snapshots and the counters are those of the batch without such records
C27_EmptyHashSkipped ==
  Reconciled => SameOutcome(rc.result, process_new_scraped_data(WithHash(rc.batch)))

\* a record without hash came first and the new record after it was filed
C27_Witness ==
  /\ Reconciled
  /\ Len(rc.batch) = 2
  /\ rc.batch[1].content_hash = ""
  /\ rc.result.stats.new_items = 1

\* C28: a batch record without title is dropped: the lists of both
\* snapshots and the counters are those of the batch without such records
C28_Claim ==
  Reconciled => SameOutcome(rc.result, process_new_scraped_data(WithTitle(rc.batch)))

(***************************************************************************)
(* Scrape cycles, the Record Store, the canonical snapshot and the queue   *)
(***************************************************************************)
\* the number of queue items made for hash h
Pushed(h) ==
  Cardinality({u \in DOMAIN mem : mem[u].notification_data.content_hash = h})
CanonHashes == HashesIn(get_existing_data)

\* every item a step adds to the queue is added by a cycle that found its
\* hash neither in the table when it began nor in the canonical snapshot
\* it read
C33_Step ==
  \A u \in (DOMAIN mem') \ (DOMAIN mem) :
    \E t \in CycleThreads :
      /\ pl[t].pc = "enqueue" /\ pl'[t].pc = "done"
      /\ mem'[u].notification_data.content_hash \notin pl[t].db0
      /\ mem'[u].notification_data.content_hash \notin pl[t].pre

C34_Claim ==
  \A h \in ContentHashes \ {""} :
    (h \in stored_hashes(db)) ~> (h \in CanonHashes /\ Pushed(h) >= 1)

\* C35: a content_hash that is in the canonical snapshot stays in it
C35_Claim == [][CanonHashes \subseteq CanonHashes']_vars

Cyc1 == pl["timer"]
MainSaved == main_data_file = [exists |-> TRUE, data |-> Cyc1.result.main_data]
DeltaSaved == notification_file = [exists |-> TRUE, data |-> Cyc1.result.notification_data]
NewInCycle == Cyc1.result.notification_data.total_new_notifications

\* C38: within one cycle the previous delta file is removed first, then the
\* batch is reconciled, then the canonical snapshot is saved, then the
\* delta, then the delta records are enqueued; when save_main_data raises
\* no delta file is written and nothing is enqueued in that cycle
C38_Order ==
  /\ Cyc1.pc \in {"reconcile", "save_main", "raised"} =>
       /\ ~notification_file.exists
       /\ Len(hist) = Cyc1.q0
  /\ Cyc1.pc = "save_main" => CanonHashes = Cyc1.pre
  /\ Cyc1.pc = "save_delta" =>
       MainSaved /\ ~notification_file.exists /\ Len(hist) = Cyc1.q0
  /\ Cyc1.pc = "enqueue" => MainSaved /\ DeltaSaved /\ Len(hist) = Cyc1.q0
  /\ Cyc1.pc = "done" =>
       /\ MainSaved
       /\ Len(hist) = Cyc1.q0 + NewInCycle
       /\ IF NewInCycle > 0 THEN DeltaSaved ELSE ~notification_file.exists

\* save_main_data raised in a cycle that had a new record to announce
C38_Witness ==
  /\ Cyc1.pc = "raised"
  /\ NewInCycle = 1
  /\ Cyc1.q0 = 0
  /\ main_data_file.exists

\* the _run_scheduler threads that have not left their loop
LoopThreads == {k \in 1..Len(sch.threads) : sch.threads[k] \in {"loop", "job"}}

\* C36: while the Scheduler is running at most one _run_scheduler thread
\* polls the timer table, whatever calls of start() and stop() were made
C36_Claim == sch.is_running => Cardinality(LoopThreads) <= 1

(***************************************************************************)
(* Delivery                                                                *)
(***************************************************************************)
Terminal(u) == u \in DOMAIN mem /\ mem[u].status \in {"SENT", "FAILED"}
LiveQueueEmpty == queue = <<>> /\ \A t \in Threads : sv[t].temp = <<>>

\* C37: while the worker runs, every enqueued item eventually is sent or
\* failed, and when no more items are enqueued the live queue eventually
\* is and stays empty
C37_Delivered ==
  /\ \A u \in 1..MaxItems : (u \in DOMAIN mem) ~> Terminal(u)
  /\ <>[](LiveQueueEmpty /\ w_pc = "get")

\* one item failed after its retries, another was sent, the queue is empty
C37_Witness ==
  /\ \E u \in DOMAIN mem : mem[u].status = "FAILED" /\ hist[u].retries = DefaultMaxAttempts - 1
  /\ \E u \in DOMAIN mem : mem[u].status = "SENT"
  /\ LiveQueueEmpty
  /\ w_pc = "get"

(***************************************************************************)
(* The exam name of the webhook payload                                    *)
(***************************************************************************)
\* the exam name that stands for a category
CategoryExamName ==
  [jee |-> "JEE Main", jee_adv |-> "JEE Advanced", gate |-> "GATE",
   upsc |-> "UPSC Civil Services"]

\* C39: metadata.examName of the payload names the exam of the category
\* under which the Reconciler filed the record
C39_Claim ==
  cls_result # "none" =>
    cls_result = CategoryExamName[determine_category(cls_update)]

====
